---- MODULE Spec2Model ----
(***************************************************************************)
(* Promotion evaluation / promotion commit and fee-reminder lifecycle of   *)
(* the school-management backend, as state machines over the record store. *)
(*                                                                         *)
(* Units: averageScore and overallAverage are kept in hundredths of a      *)
(* percent (the code rounds them to two decimals), so 65 % is 6500.        *)
(* Dates are day numbers; a calendar year has DaysPerYear days.            *)
(***************************************************************************)
EXTENDS Integers, Sequences, FiniteSets, TLC

VARIABLES
  today,        \* the clock: new Date(), as a day number
  students,     \* Student collection: _id -> [class, academicYear]
  grades,       \* Grade collection, as a sequence of documents
  attendance,   \* Attendance collection, as a sequence of documents
  fees,         \* Fee collection, as a sequence of documents
  promotions,   \* Promotion collection, in insertion order (_id = index)
  reminders,    \* FeeReminder collection, in insertion order (_id = index)
  procs,        \* in-flight requests of the interleaved specifications
  doc,          \* an in-memory Promotion document (eligibility check)
  resp,         \* the last response sent (with what the handler did)
  changes       \* number of data mutations done so far (bounded)

vars == <<today, students, grades, attendance, fees, promotions, reminders,
          procs, doc, resp, changes>>

----------------------------------------------------------------------------
\* Bounds of the model

MaxTicks == 1
MaxChanges == 1
MaxReminders == 2
MaxProcs == 2
MaxSaves == 2
MaxFees == 1
MaxPoints == 105
MaxGrades == 2
MaxPayments == 2

\* Program constants

DefaultMinimumAttendance == 75
DefaultMinimumGrade == 65
PassMark == 65
DaysPerYear == 365
FinalNoticeDays == 30
StartDay == 364
NaN == -1

----------------------------------------------------------------------------
\* Universe

StudentIds == {"s1", "s2"}
ClassIds == {"c1"}
Terms == {"Second Term", "Third Term"}
AcademicYears == {"2024-25"}
ExamTypes == {"midterm", "final"}
PromotionStatuses == {"pending", "eligible", "promoted", "held_back", "under_review"}

\* A class name: the regular expression /Grade (\d+)/ either matches
\* (hasGrade, with the number) or does not.
ClassName(n) == [hasGrade |-> TRUE, num |-> n]
PlainName == [hasGrade |-> FALSE, num |-> 0]

\* Class documents (name, grade, students); no operation of this subsystem
\* changes them.
Classes ==
  [c \in ClassIds |->
     [name |-> ClassName(5), grade |-> 5, students |-> <<"s1", "s2">>]]

YearOf(d) == d \div DaysPerYear
YearStart(d) == YearOf(d) * DaysPerYear

RECURSIVE SumSeq(_)
SumSeq(s) == IF s = <<>> THEN 0 ELSE Head(s) + SumSeq(Tail(s))

RECURSIVE SelectIdx(_, _, _)
\* indices i of s, ascending, with Test(s[i])
SelectIdx(s, Test(_), i) ==
  IF i > Len(s) THEN <<>>
  ELSE IF Test(s[i]) THEN <<i>> \o SelectIdx(s, Test, i + 1)
       ELSE SelectIdx(s, Test, i + 1)

\* Math.round(n / d) for n >= 0, d > 0 (half rounds up)
RoundDiv(n, d) == (2 * n + d) \div (2 * d)

----------------------------------------------------------------------------
\* Promotion model

getNextClass(currentClass) ==
  IF currentClass.hasGrade
  THEN [currentClass EXCEPT !.num = @ + 1]
  ELSE currentClass

getNextGrade(currentGrade) == currentGrade + 1

\* (completedDate, a timestamp nothing reads, is left out)
NoExam == [completed |-> FALSE, averageScore |-> 0, totalSubjects |-> 0,
           passedSubjects |-> 0]

DefaultRequirements ==
  [minimumAttendance |-> DefaultMinimumAttendance,
   minimumGrade |-> DefaultMinimumGrade,
   requiredExams |-> {"midterm", "final"}]

\* new Promotion({...}) in POST /evaluate, with the schema defaults
NewPromotion(s, classData, academicYear, term) ==
  [studentId |-> s,
   currentClass |-> students[s].class,
   currentGrade |-> classData.grade,
   nextClass |-> getNextClass(students[s].class),
   nextGrade |-> getNextGrade(classData.grade),
   academicYear |-> academicYear,
   term |-> term,
   examResults |-> [midterm |-> NoExam, final |-> NoExam],
   overallAverage |-> 0,
   promotionStatus |-> "pending",
   promotionDate |-> 0,
   requirements |-> DefaultRequirements,
   attendancePercentage |-> 0,
   feeStatus |-> "pending",
   approved |-> FALSE]

MutCheckEligibilityStrict(p) ==
  LET req == p.requirements
      midtermMet == ("midterm" \notin req.requiredExams)
                      \/ (p.examResults.midterm.completed
                          /\ p.examResults.midterm.averageScore > req.minimumGrade * 100)
      finalMet == ("final" \notin req.requiredExams)
                      \/ (p.examResults.final.completed
                          /\ p.examResults.final.averageScore > req.minimumGrade * 100)
      attendanceMet == p.attendancePercentage > req.minimumAttendance
      gradeMet == p.overallAverage > req.minimumGrade * 100
  IN [p EXCEPT !.promotionStatus =
        IF midtermMet /\ finalMet /\ attendanceMet /\ gradeMet
        THEN "eligible" ELSE "under_review"]

\* promotionSchema.methods.checkPromotionEligibility: the document with its
\* promotionStatus set
checkPromotionEligibility(p) ==
  LET req == p.requirements
      midtermRequired == "midterm" \in req.requiredExams
      finalRequired == "final" \in req.requiredExams
      midtermMet == (~midtermRequired)
                      \/ (p.examResults.midterm.completed
                          /\ p.examResults.midterm.averageScore >= req.minimumGrade * 100)
      finalMet == (~finalRequired)
                      \/ (p.examResults.final.completed
                          /\ p.examResults.final.averageScore >= req.minimumGrade * 100)
      attendanceMet == p.attendancePercentage >= req.minimumAttendance
      gradeMet == p.overallAverage >= req.minimumGrade * 100
  IN [p EXCEPT !.promotionStatus =
        IF midtermMet /\ finalMet /\ attendanceMet /\ gradeMet
        THEN "eligible" ELSE "under_review"]

\* grade.score / grade.maxScore * 100, in hundredths of a percent
Pct100(g) == (g.score * 10000) \div g.maxScore

RECURSIVE MapPct(_)
MapPct(gs) == IF gs = <<>> THEN <<>> ELSE <<Pct100(Head(gs))>> \o MapPct(Tail(gs))

\* Grade.find({studentId, examType, academicYear, term})
FindGrades(s, examType, academicYear, term) ==
  LET Match(g) == g.studentId = s /\ g.examType = examType
                  /\ g.academicYear = academicYear /\ g.term = term
  IN SelectSeq(grades, Match)

\* Math.round(avg * 100) / 100 of the mean percentage, in hundredths
AverageScore(gs) == RoundDiv(SumSeq(MapPct(gs)), Len(gs))

ExamResult(gs) ==
  LET Passed(g) == Pct100(g) >= PassMark * 100
  IN [completed |-> TRUE,
      averageScore |-> AverageScore(gs),
      totalSubjects |-> Len(gs),
      passedSubjects |-> Len(SelectSeq(gs, Passed))]

\* Attendance.countDocuments({studentId, date >= Jan 1 of the current year})
CountAttendance(s, statuses) ==
  LET Match(a) == a.studentId = s /\ a.status \in statuses
                  /\ a.date >= YearStart(today)
  IN Len(SelectSeq(attendance, Match))

AttendancePercentage(s) ==
  LET totalDays == CountAttendance(s, {"present", "absent", "late"})
      presentDays == CountAttendance(s, {"present"})
  IN IF totalDays > 0 THEN RoundDiv(presentDays * 100, totalDays) ELSE 0

\* Fee.countDocuments({studentId, status in [pending, overdue], academicYear})
CountUnpaidFees(s, academicYear) ==
  LET Match(f) == f.studentId = s /\ f.status \in {"pending", "overdue"}
                  /\ f.academicYear = academicYear
  IN Len(SelectSeq(fees, Match))

\* Promotion.findOne({studentId, academicYear, term}): the _id of the first
\* match in natural order, 0 when there is none
FindPromotion(proms, s, academicYear, term) ==
  LET Match(p) == p.studentId = s /\ p.academicYear = academicYear /\ p.term = term
      found == SelectIdx(proms, Match, 1)
  IN IF found = <<>> THEN 0 ELSE Head(found)

\* The body of the loop of POST /evaluate from the exam results to the
\* eligibility check: the in-memory document just before save()
Recompute(promotion, s, academicYear, term) ==
  LET midtermGrades == FindGrades(s, "midterm", academicYear, term)
      finalGrades == FindGrades(s, "final", academicYear, term)
      allGrades == midtermGrades \o finalGrades
      p1 == IF Len(midtermGrades) > 0
            THEN [promotion EXCEPT !.examResults.midterm = ExamResult(midtermGrades)]
            ELSE promotion
      p2 == IF Len(finalGrades) > 0
            THEN [p1 EXCEPT !.examResults.final = ExamResult(finalGrades)]
            ELSE p1
      p3 == IF Len(allGrades) > 0
            THEN [p2 EXCEPT !.overallAverage = AverageScore(allGrades)]
            ELSE p2
      p4 == [p3 EXCEPT !.attendancePercentage = AttendancePercentage(s),
                       !.feeStatus = IF CountUnpaidFees(s, academicYear) > 0
                                     THEN "pending" ELSE "paid"]
  IN checkPromotionEligibility(p4)

MutEvaluateStudentInsert(proms, s, classData, academicYear, term) ==
  Append(proms, Recompute(NewPromotion(s, classData, academicYear, term),
                          s, academicYear, term))

\* One iteration of the loop of POST /evaluate: find or create, recompute, save
EvaluateStudent(proms, s, classData, academicYear, term) ==
  LET id == FindPromotion(proms, s, academicYear, term)
  IN IF id = 0
     THEN Append(proms, Recompute(NewPromotion(s, classData, academicYear, term),
                                  s, academicYear, term))
     ELSE [proms EXCEPT ![id] = Recompute(proms[id], s, academicYear, term)]

RECURSIVE EvaluateAll(_, _, _, _, _)
EvaluateAll(proms, ss, classData, academicYear, term) ==
  IF ss = <<>> THEN proms
  ELSE EvaluateAll(EvaluateStudent(proms, Head(ss), classData, academicYear, term),
                   Tail(ss), classData, academicYear, term)

\* The last response, with the request it answers (req), the documents the
\* handler worked on (selected) and the store faults it met (faults)
NoReq ==
  [classId |-> "", className |-> PlainName, academicYear |-> "", term |-> "",
   studentIds |-> {}, reminderType |-> "", daysBefore |-> 0,
   studentList |-> <<>>, feeTypes |-> {}, at |-> 0, role |-> "",
   student |-> "", studentId |-> ""]

NoResp ==
  [op |-> "none", req |-> NoReq, ok |-> TRUE, error |-> "", id |-> 0,
   selected |-> <<>>, faults |-> <<>>, promoted |-> 0, failed |-> 0,
   errors |-> <<>>, created |-> 0, updated |-> 0, sent |-> 0, data |-> <<>>]

\* POST /api/promotions/evaluate
Evaluate(classId, academicYear, term) ==
  /\ IF classId \notin ClassIds
     THEN /\ resp' = [NoResp EXCEPT !.op = "evaluate", !.ok = FALSE,
                                   !.req = [NoReq EXCEPT
                                              !.classId = classId,
                                              !.academicYear = academicYear,
                                              !.term = term],
                                   !.error = "Class not found"]
          /\ UNCHANGED promotions
     ELSE LET classData == Classes[classId]
              after == EvaluateAll(promotions, classData.students, classData,
                                   academicYear, term)
          IN /\ promotions' = after
             /\ resp' = [NoResp EXCEPT
                           !.op = "evaluate",
                           !.req = [NoReq EXCEPT
                                      !.classId = classId,
                                      !.academicYear = academicYear,
                                      !.term = term],
                           !.selected = classData.students,
                           !.created = Len(after) - Len(promotions),
                           !.updated = Len(classData.students)
                                         - (Len(after) - Len(promotions))]
  /\ UNCHANGED <<today, students, grades, attendance, fees, reminders, procs,
                 doc, changes>>

NotEligibleError == "Student is not eligible for promotion"
StoreError == "store failure"
Faults == {"none", "update", "save"}

MutPromoteStudentUnguarded(p, studs, fault) ==
  IF fault = "update"
  THEN [threw |-> TRUE, error |-> StoreError, students |-> studs, promotion |-> p]
  ELSE LET studs2 == [studs EXCEPT ![p.studentId].class = p.nextClass,
                                   ![p.studentId].academicYear = p.academicYear]
       IN IF fault = "save"
          THEN [threw |-> TRUE, error |-> StoreError, students |-> studs2,
                promotion |-> p]
          ELSE [threw |-> FALSE, error |-> "", students |-> studs2,
                promotion |-> [p EXCEPT !.promotionStatus = "promoted",
                                        !.promotionDate = today]]

\* promotionSchema.methods.promoteStudent on the in-memory document p.
\* fault: which store call rejects ("update": Student.findByIdAndUpdate,
\* "save": this.save(), "none": neither).  The result holds the Student
\* collection and the document as persisted (p unchanged when not saved).
promoteStudent(p, studs, fault) ==
  IF p.promotionStatus # "eligible"
  THEN [threw |-> TRUE, error |-> NotEligibleError, students |-> studs,
        promotion |-> p]
  ELSE IF fault = "update"
  THEN [threw |-> TRUE, error |-> StoreError, students |-> studs, promotion |-> p]
  ELSE LET studs2 == [studs EXCEPT ![p.studentId].class = p.nextClass,
                                   ![p.studentId].academicYear = p.academicYear]
       IN IF fault = "save"
          THEN [threw |-> TRUE, error |-> StoreError, students |-> studs2,
                promotion |-> p]
          ELSE [threw |-> FALSE, error |-> "", students |-> studs2,
                promotion |-> [p EXCEPT !.promotionStatus = "promoted",
                                        !.promotionDate = today]]

\* POST /api/promotions/promote/:id
Promote(id, fault) ==
  /\ IF id \notin DOMAIN promotions
     THEN /\ resp' = [NoResp EXCEPT !.op = "promote", !.ok = FALSE, !.id = id,
                                   !.error = "Promotion record not found"]
          /\ UNCHANGED <<students, promotions>>
     ELSE LET promotion == [promotions[id] EXCEPT !.approved = TRUE]
              r == promoteStudent(promotion, students, fault)
          IN /\ students' = r.students
             /\ promotions' = IF r.threw THEN promotions
                              ELSE [promotions EXCEPT ![id] = r.promotion]
             /\ resp' = [NoResp EXCEPT !.op = "promote", !.ok = ~r.threw,
                                       !.id = id, !.error = r.error]
  /\ UNCHANGED <<today, grades, attendance, fees, reminders, procs, doc, changes>>

NoResults == [promoted |-> 0, failed |-> 0, errors |-> <<>>]

RECURSIVE MutBulkLoopAbort(_, _, _, _, _)
MutBulkLoopAbort(ids, proms, studs, faults, results) ==
  IF ids = <<>>
  THEN [promotions |-> proms, students |-> studs, results |-> results]
  ELSE LET id == Head(ids)
           promotion == [proms[id] EXCEPT !.approved = TRUE]
           r == promoteStudent(promotion, studs, faults[promotion.studentId])
       IN IF r.threw
          THEN [promotions |-> proms, students |-> r.students,
                results |-> [results EXCEPT
                               !.failed = @ + 1,
                               !.errors = Append(@, promotion.studentId)]]
          ELSE MutBulkLoopAbort(Tail(ids), [proms EXCEPT ![id] = r.promotion],
                                r.students, faults,
                                [results EXCEPT !.promoted = @ + 1])

RECURSIVE BulkLoop(_, _, _, _, _)
\* The for loop of processBulkPromotions over the found documents
BulkLoop(ids, proms, studs, faults, results) ==
  IF ids = <<>>
  THEN [promotions |-> proms, students |-> studs, results |-> results]
  ELSE LET id == Head(ids)
           promotion == [proms[id] EXCEPT !.approved = TRUE]
           r == promoteStudent(promotion, studs, faults[promotion.studentId])
       IN IF r.threw
          THEN BulkLoop(Tail(ids), proms, r.students, faults,
                        [results EXCEPT
                           !.failed = @ + 1,
                           !.errors = Append(@, promotion.studentId)])
          ELSE BulkLoop(Tail(ids), [proms EXCEPT ![id] = r.promotion],
                        r.students, faults,
                        [results EXCEPT !.promoted = @ + 1])

\* this.find({currentClass: classId, academicYear, promotionStatus: 'eligible'})
\* of processBulkPromotions: the _ids found
FindEligible(proms, classId, academicYear) ==
  LET Match(p) == p.currentClass = classId /\ p.academicYear = academicYear
                  /\ p.promotionStatus = "eligible"
  IN SelectIdx(proms, Match, 1)

\* promotionSchema.statics.processBulkPromotions(classId, academicYear,
\* approvedBy), answered to the caller as op
processBulkPromotions(classId, academicYear, faults, op, req) ==
  LET ids == FindEligible(promotions, classId, academicYear)
      out == BulkLoop(ids, promotions, students, faults, NoResults)
  IN /\ promotions' = out.promotions
     /\ students' = out.students
     /\ resp' = [NoResp EXCEPT !.op = op, !.req = req, !.selected = ids,
                               !.faults = faults,
                               !.promoted = out.results.promoted,
                               !.failed = out.results.failed,
                               !.errors = out.results.errors]
     /\ UNCHANGED <<today, grades, attendance, fees, reminders, procs, doc,
                    changes>>

\* The filter object POST /bulk-promote builds
BulkQuery(classId, academicYear, studentIds) ==
  [kind |-> "query",
   academicYear |-> academicYear,
   promotionStatus |-> "eligible",
   currentClass |-> IF classId \in ClassIds THEN <<Classes[classId].name>> ELSE <<>>,
   studentId |-> studentIds]

\* POST /api/promotions/bulk-promote: the filter object is handed to
\* processBulkPromotions as its classId argument, so the store is asked for
\* documents whose currentClass equals that object.  No document has one; the
\* store either answers with no document or rejects the filter (rejected).
BulkPromote(classId, academicYear, studentIds, faults, rejected) ==
  LET query == BulkQuery(classId, academicYear, studentIds)
      req == [NoReq EXCEPT !.classId = classId, !.academicYear = academicYear,
                           !.studentIds = studentIds]
  IN IF rejected
     THEN /\ resp' = [NoResp EXCEPT !.op = "bulk-promote", !.ok = FALSE,
                                   !.req = req,
                                   !.error = "Failed to process bulk promotions"]
          /\ UNCHANGED <<today, students, grades, attendance, fees, promotions,
                         reminders, procs, doc, changes>>
     ELSE processBulkPromotions(query, academicYear, faults, "bulk-promote", req)

----------------------------------------------------------------------------
\* The surrounding service: grade and attendance entry, the clock

MutGradeLevelStrict(score, maxScore) ==
  CASE 100 * score >= 97 * maxScore -> "A+"
    [] 100 * score >= 93 * maxScore -> "A"
    [] 100 * score >= 90 * maxScore -> "A-"
    [] 100 * score >= 87 * maxScore -> "B+"
    [] 100 * score >= 83 * maxScore -> "B"
    [] 100 * score >= 80 * maxScore -> "B-"
    [] 100 * score >= 77 * maxScore -> "C+"
    [] 100 * score >= 73 * maxScore -> "C"
    [] 100 * score >= 70 * maxScore -> "C-"
    [] 100 * score >= 67 * maxScore -> "D+"
    [] 100 * score > 65 * maxScore -> "D"
    [] OTHER -> "F"

\* The band of gradeSchema.pre('save'): percentage = (score / maxScore) * 100
\* against each threshold, as 100 * score >= threshold * maxScore (the
\* floating-point quotient gives the same band for whole and half marks up
\* to maxScore 400)
gradeLevel(score, maxScore) ==
  IF 100 * score >= 97 * maxScore THEN "A+"
  ELSE IF 100 * score >= 93 * maxScore THEN "A"
  ELSE IF 100 * score >= 90 * maxScore THEN "A-"
  ELSE IF 100 * score >= 87 * maxScore THEN "B+"
  ELSE IF 100 * score >= 83 * maxScore THEN "B"
  ELSE IF 100 * score >= 80 * maxScore THEN "B-"
  ELSE IF 100 * score >= 77 * maxScore THEN "C+"
  ELSE IF 100 * score >= 73 * maxScore THEN "C"
  ELSE IF 100 * score >= 70 * maxScore THEN "C-"
  ELSE IF 100 * score >= 67 * maxScore THEN "D+"
  ELSE IF 100 * score >= 65 * maxScore THEN "D"
  ELSE "F"

\* gradeSchema.pre('save')
gradePreSave(grade) ==
  [grade EXCEPT !.gradeLevel = gradeLevel(grade.score, grade.maxScore)]

GradeDoc(s, examType, score, term) ==
  gradePreSave([studentId |-> s, examType |-> examType, score |-> score,
                maxScore |-> 100, gradeLevel |-> "",
                academicYear |-> "2024-25", term |-> term,
                subjectName |-> "Math", classId |-> "", date |-> StartDay])

AttendanceDoc(s, status, date) == [studentId |-> s, status |-> status, date |-> date]

FeeDoc(s, status, dueDate) ==
  [studentId |-> s, type |-> "tuition", amount |-> 100, paidAmount |-> 0,
   discount |-> 0, lateFee |-> 0,
   status |-> status, dueDate |-> dueDate, academicYear |-> "2024-25",
   paymentHistory |-> <<>>]

AddGrade(s, examType, score) ==
  /\ changes < MaxChanges
  /\ grades' = Append(grades, GradeDoc(s, examType, score, "Third Term"))
  /\ changes' = changes + 1
  /\ resp' = [NoResp EXCEPT !.op = "grade"]
  /\ UNCHANGED <<today, students, attendance, fees, promotions, reminders,
                 procs, doc>>

MarkAttendance(s, status) ==
  /\ changes < MaxChanges
  /\ attendance' = Append(attendance, AttendanceDoc(s, status, today))
  /\ changes' = changes + 1
  /\ resp' = [NoResp EXCEPT !.op = "attendance"]
  /\ UNCHANGED <<today, students, grades, fees, promotions, reminders, procs, doc>>

Tick ==
  /\ today < StartDay + MaxTicks
  /\ today' = today + 1
  /\ UNCHANGED <<students, grades, attendance, fees, promotions, reminders,
                 procs, doc, resp, changes>>

----------------------------------------------------------------------------
\* Specification of the promotion subsystem, requests served one at a time

RECURSIVE Concat(_, _)
\* the concatenation of f[x] over the sequence xs
Concat(f, xs) == IF xs = <<>> THEN <<>> ELSE f[Head(xs)] \o Concat(f, Tail(xs))

StudentOrder == <<"s1", "s2">>

InitStudents ==
  [s \in StudentIds |->
     [class |-> ClassName(5),
      academicYear |-> "2023-24"]]

InitGradeChoices ==
  [StudentIds -> {0, 1}]

InitGrades(c) ==
  Concat([s \in StudentIds |->
            IF c[s] = 1
            THEN <<GradeDoc(s, "midterm", 70, "Third Term"),
                   GradeDoc(s, "final", 80, "Third Term")>>
            ELSE <<>>], StudentOrder)

InitAttendance(c) ==
  Concat([s \in StudentIds |->
            IF c[s] = 1 THEN <<AttendanceDoc(s, "present", StartDay - 1)>>
            ELSE <<>>], StudentOrder)

NoDoc == <<>>

Init ==
  /\ today = StartDay
  /\ students = InitStudents
  /\ \E c \in InitGradeChoices : c["s1"] = 1 /\ grades = InitGrades(c)
  /\ attendance = InitAttendance([s \in StudentIds |-> 1])
  /\ fees = <<FeeDoc("s1", "pending", StartDay)>>
  /\ promotions = <<>>
  /\ reminders = <<>>
  /\ procs = <<>>
  /\ doc = NoDoc
  /\ resp = NoResp
  /\ changes = 0

EvaluateAny ==
  \E classId \in ClassIds \cup {"cx"}, academicYear \in AcademicYears, term \in Terms :
    Evaluate(classId, academicYear, term)

PromoteAny ==
  \E id \in 1..(Len(promotions) + 1), fault \in Faults : Promote(id, fault)

BulkPromoteAny ==
  \E classId \in ClassIds \cup {"cx"}, academicYear \in AcademicYears,
     studentIds \in {{}, {"s1"}}, rejected \in BOOLEAN :
    BulkPromote(classId, academicYear, studentIds,
                [s \in StudentIds |-> "none"], rejected)

AddGradeAny ==
  \E s \in StudentIds, examType \in {"final"}, score \in {40} :
    AddGrade(s, examType, score)

MarkAttendanceAny ==
  \E s \in StudentIds, status \in {"absent"} : MarkAttendance(s, status)

Next ==
  \/ EvaluateAny
  \/ PromoteAny
  \/ BulkPromoteAny
  \/ AddGradeAny
  \/ MarkAttendanceAny

Spec == Init /\ [][Next]_vars

\* The same with the clock advancing (into the next calendar year)
NextClock ==
  \/ EvaluateAny
  \/ PromoteAny
  \/ BulkPromoteAny
  \/ AddGradeAny
  \/ MarkAttendanceAny
  \/ Tick

SpecClock == Init /\ [][NextClock]_vars

\* processBulkPromotions called with a class name, as its signature
\* (classId, academicYear, approvedBy) asks, on the records that evaluate
\* runs and new grades leave
ProcessBulkPromotionsAny ==
  \E n \in {5, 6}, academicYear \in AcademicYears, faults \in [StudentIds -> Faults] :
    processBulkPromotions(ClassName(n), academicYear, faults, "bulk",
                          [NoReq EXCEPT !.className = ClassName(n),
                                        !.academicYear = academicYear])

NextBulk ==
  \/ EvaluateAny
  \/ AddGradeAny
  \/ ProcessBulkPromotionsAny

SpecBulk == Init /\ [][NextBulk]_vars

----------------------------------------------------------------------------
\* Properties of the promotion subsystem

PromoteKeepsAll(p, st, f) ==
  LET r == promoteStudent([p EXCEPT !.promotionStatus = st], students, f)
  IN r.threw /\ r.error = NotEligibleError /\ r.students = students
     /\ r.promotion.promotionStatus = st

\* C1: promote on a Promotion record that is not 'eligible' fails with an
\* error and changes neither the Student collection nor the persisted
\* Promotion records; promoteStudent throws for every status but 'eligible'.
PromoteIsGuarded ==
  /\ [](\A i \in DOMAIN promotions, st \in PromotionStatuses \ {"eligible"},
           f \in Faults : PromoteKeepsAll(promotions[i], st, f))
  /\ [][(/\ resp'.op = "promote"
         /\ resp'.id \in DOMAIN promotions
         /\ promotions[resp'.id].promotionStatus # "eligible")
        => (/\ ~resp'.ok
            /\ resp'.error = NotEligibleError
            /\ students' = students
            /\ promotions' = promotions)]_vars

PromoteRefusedWitness ==
  /\ resp.op = "promote"
  /\ ~resp.ok
  /\ resp.error = NotEligibleError
  /\ resp.id \in DOMAIN promotions
  /\ promotions[resp.id].promotionStatus = "under_review"

\* C2: once a Promotion record is 'promoted' or 'held_back', no evaluate,
\* promote or bulk-promote changes its promotionStatus.
TerminalStatusesStay ==
  [][\A i \in DOMAIN promotions :
       promotions[i].promotionStatus \in {"promoted", "held_back"}
         => promotions'[i].promotionStatus = promotions[i].promotionStatus]_vars

PromotionKey(p) == <<p.studentId, p.academicYear, p.term>>

WithKey(k) == {i \in DOMAIN promotions : PromotionKey(promotions[i]) = k}

\* C5: sequential evaluate runs leave at most one Promotion record per
\* (studentId, academicYear, term); after an evaluate run every student of
\* the class has exactly one record for the requested year and term.
OnePromotionPerKey ==
  /\ \A i, j \in DOMAIN promotions :
       PromotionKey(promotions[i]) = PromotionKey(promotions[j]) => i = j
  /\ (resp.op = "evaluate" /\ resp.ok)
       => \A k \in DOMAIN resp.selected :
            Cardinality(WithKey(<<resp.selected[k], resp.req.academicYear,
                                  resp.req.term>>)) = 1

ReEvaluatedWitness ==
  /\ resp.op = "evaluate"
  /\ resp.created = 0
  /\ resp.updated = 2
  /\ Len(promotions) = 4

Snapshot(p) ==
  [examResults |-> p.examResults, overallAverage |-> p.overallAverage,
   attendancePercentage |-> p.attendancePercentage, feeStatus |-> p.feeStatus,
   promotionStatus |-> p.promotionStatus]

\* C8: an evaluate that directly follows an evaluate of the same class,
\* academicYear and term, with the Grade, Attendance and Fee records
\* unchanged, leaves examResults, overallAverage, attendancePercentage,
\* feeStatus and promotionStatus of every Promotion record as they were.
ReEvaluationIdempotent ==
  [][(/\ resp.op = "evaluate" /\ resp.ok
      /\ resp'.op = "evaluate" /\ resp'.req = resp.req
      /\ grades' = grades /\ attendance' = attendance /\ fees' = fees)
     => (/\ Len(promotions') = Len(promotions)
         /\ \A i \in DOMAIN promotions :
              Snapshot(promotions'[i]) = Snapshot(promotions[i]))]_vars

RECURSIVE FailedStudents(_, _, _)
\* the studentIds of the documents ids whose promotion met a store fault
FailedStudents(ids, proms, faults) ==
  IF ids = <<>> THEN <<>>
  ELSE LET s == proms[Head(ids)].studentId
       IN (IF faults[s] # "none" THEN <<s>> ELSE <<>>)
            \o FailedStudents(Tail(ids), proms, faults)

\* C9: processBulkPromotions attempts every selected record once: a record
\* ends 'promoted' exactly when its own promotion met no fault, whatever
\* happened to the others; every failure is in errors with its studentId and
\* promoted + failed is the number of selected records.
BulkPartitionIndependent ==
  resp.op = "bulk" =>
    /\ resp.promoted + resp.failed = Len(resp.selected)
    /\ \A k \in DOMAIN resp.selected :
         LET p == promotions[resp.selected[k]]
         IN p.promotionStatus =
              IF resp.faults[p.studentId] = "none" THEN "promoted" ELSE "eligible"
    /\ resp.errors = FailedStudents(resp.selected, promotions, resp.faults)
    /\ resp.failed = Len(resp.errors)

BulkPartialFailureWitness ==
  /\ resp.op = "bulk"
  /\ Len(resp.selected) = 2
  /\ resp.failed = 1
  /\ resp.promoted = 1
  /\ resp.faults[promotions[resp.selected[1]].studentId] # "none"
  /\ promotions[resp.selected[2]].promotionStatus = "promoted"

\* C10: a bulk-promote request with a classId, an academicYear and an
\* optional studentIds set promotes exactly the 'eligible' Promotion records
\* of that class and year (and of those students); the others stay unchanged.
BulkPromoteSelectsFiltered ==
  [][(resp'.op = "bulk-promote" /\ resp'.req.classId \in ClassIds)
     => \A i \in DOMAIN promotions :
          LET p == promotions[i]
              inFilter == /\ p.promotionStatus = "eligible"
                          /\ p.currentClass = Classes[resp'.req.classId].name
                          /\ p.academicYear = resp'.req.academicYear
                          /\ (resp'.req.studentIds # {}
                                => p.studentId \in resp'.req.studentIds)
          IN IF inFilter
             THEN promotions'[i].promotionStatus = "promoted"
             ELSE promotions'[i] = p]_vars

----------------------------------------------------------------------------
\* Specification of the eligibility check alone: a Promotion document with
\* any snapshot, any requirements and any previous status, on which
\* checkPromotionEligibility is called

AttendanceValues == {60, 74, 75, 80}
OverallValues == {6499, 6500, 7500}

SnapshotDocs ==
  {[NewPromotion("s1", Classes["c1"], "2024-25", "Third Term") EXCEPT
      !.examResults.midterm.completed = mc,
      !.examResults.midterm.averageScore = ma,
      !.examResults.final.completed = fc,
      !.examResults.final.averageScore = fa,
      !.attendancePercentage = att,
      !.overallAverage = oa,
      !.requirements.requiredExams = re,
      !.requirements.minimumGrade = mg,
      !.promotionStatus = st] :
     mc \in BOOLEAN, ma \in {6499, 6500, 7000}, fc \in BOOLEAN,
     fa \in {0, 6500, 8000}, att \in AttendanceValues, oa \in OverallValues,
     re \in SUBSET ExamTypes, mg \in {DefaultMinimumGrade, 70},
     st \in {"pending", "promoted", "held_back"}}

InitElig ==
  /\ today = StartDay
  /\ students = InitStudents
  /\ grades = <<>>
  /\ attendance = <<>>
  /\ fees = <<>>
  /\ promotions = <<>>
  /\ reminders = <<>>
  /\ procs = <<>>
  /\ doc \in {[p |-> d, called |-> FALSE, eligible |-> FALSE] : d \in SnapshotDocs}
  /\ resp = NoResp
  /\ changes = 0

\* promotion.checkPromotionEligibility(), with the flag it returns
CheckEligibility ==
  /\ ~doc.called
  /\ LET after == checkPromotionEligibility(doc.p)
     IN doc' = [p |-> after, called |-> TRUE,
                eligible |-> (after.promotionStatus = "eligible")]
  /\ UNCHANGED <<today, students, grades, attendance, fees, promotions,
                 reminders, procs, resp, changes>>

NextElig == CheckEligibility

SpecElig == InitElig /\ [][NextElig]_vars

MeetsRequirements(p) ==
  /\ \A e \in p.requirements.requiredExams :
       /\ p.examResults[e].completed
       /\ p.examResults[e].averageScore >= p.requirements.minimumGrade * 100
  /\ p.attendancePercentage >= p.requirements.minimumAttendance
  /\ p.overallAverage >= p.requirements.minimumGrade * 100

\* the example of the specification: both exams required and completed,
\* midterm 70, final 80, overall 75, thresholds 75 / 65
IsExample(p, att) ==
  /\ p.requirements = DefaultRequirements
  /\ p.examResults.midterm.completed /\ p.examResults.midterm.averageScore = 7000
  /\ p.examResults.final.completed /\ p.examResults.final.averageScore = 8000
  /\ p.overallAverage = 7500
  /\ p.attendancePercentage = att

\* C7: checkPromotionEligibility sets 'eligible' iff every required exam is
\* completed with averageScore >= minimumGrade, attendancePercentage >=
\* minimumAttendance and overallAverage >= minimumGrade; otherwise it sets
\* 'under_review'; the example with attendance 80 is 'eligible', with
\* attendance 60 'under_review'.
EligibilityIffRequirements ==
  doc.called =>
    /\ doc.p.promotionStatus \in {"eligible", "under_review"}
    /\ (doc.p.promotionStatus = "eligible") <=> MeetsRequirements(doc.p)
    /\ doc.eligible <=> MeetsRequirements(doc.p)
    /\ IsExample(doc.p, 80) => doc.p.promotionStatus = "eligible"
    /\ IsExample(doc.p, 60) => doc.p.promotionStatus = "under_review"

EligibleExampleWitness ==
  doc.called /\ IsExample(doc.p, 80) /\ doc.p.promotionStatus = "eligible"

----------------------------------------------------------------------------
\* Fee reminder model

ReminderTypes == {"before_due", "on_due", "after_due", "final_notice"}
UnpaidStatuses == {"pending", "partial", "overdue"}

Abs(n) == IF n < 0 THEN -n ELSE n

\* The dateQuery of createReminders.  Due dates are at midnight and the
\* request arrives later in the day, so dueDate < now - 30 days holds from
\* the 30th day on.
InWindow(dueDate, reminderType, daysBefore) ==
  CASE reminderType = "before_due" -> dueDate = today + daysBefore
    [] reminderType = "on_due" -> dueDate = today
    [] reminderType = "after_due" -> dueDate = today - Abs(daysBefore)
    [] reminderType = "final_notice" -> dueDate <= today - FinalNoticeDays

\* daysBefore as createReminders stores it
StoredDaysBefore(reminderType, daysBefore) ==
  CASE reminderType = "before_due" -> daysBefore
    [] reminderType = "on_due" -> 0
    [] reminderType = "after_due" -> -Abs(daysBefore)
    [] reminderType = "final_notice" -> -FinalNoticeDays

\* daysBefore as POST /create stores it for an explicit studentIds list
RouteDaysBefore(reminderType, daysBefore) ==
  IF reminderType = "after_due" THEN -Abs(daysBefore) ELSE daysBefore

NewReminder(feeId, reminderType, daysBefore) ==
  [studentId |-> fees[feeId].studentId,
   feeId |-> feeId,
   feeType |-> fees[feeId].type,
   amount |-> fees[feeId].amount - fees[feeId].paidAmount,
   dueDate |-> fees[feeId].dueDate,
   reminderType |-> reminderType,
   daysBefore |-> daysBefore,
   status |-> "pending",
   attempts |-> 0,
   sentDate |-> 0,
   lastAttempt |-> 0,
   errorMessage |-> "",
   acknowledgedDate |-> 0]

MutFindExistingPendingOnly(rems, feeId, reminderType) ==
  \E i \in DOMAIN rems :
    /\ rems[i].feeId = feeId
    /\ rems[i].reminderType = reminderType
    /\ rems[i].status = "pending"

\* FeeReminder.findOne({feeId, reminderType, status in [sent, pending]}):
\* whether there is one
FindExistingReminder(rems, feeId, reminderType) ==
  \E i \in DOMAIN rems :
    /\ rems[i].feeId = feeId
    /\ rems[i].reminderType = reminderType
    /\ rems[i].status \in {"sent", "pending"}

\* Fee.find({...dateQuery, status in [pending, partial, overdue]}): the _ids
FindUnpaidFees(reminderType, daysBefore) ==
  LET Match(f) == f.status \in UnpaidStatuses
                  /\ InWindow(f.dueDate, reminderType, daysBefore)
  IN SelectIdx(fees, Match, 1)

\* Fee.find({studentId, status in [pending, partial, overdue], type in feeTypes})
FindStudentFees(studentId, feeTypes) ==
  LET Match(f) == f.studentId = studentId /\ f.status \in UnpaidStatuses
                  /\ (feeTypes # {} => f.type \in feeTypes)
  IN SelectIdx(fees, Match, 1)

RECURSIVE CreateLoop(_, _, _, _, _, _)
\* The for loop of createReminders over the fees found.  bad: the fees whose
\* reminder.save() rejects; the rejection ends the loop (threw).
CreateLoop(rems, feeIds, reminderType, daysBefore, bad, created) ==
  IF feeIds = <<>>
  THEN [reminders |-> rems, created |-> created, threw |-> FALSE]
  ELSE LET feeId == Head(feeIds)
       IN IF ~FindExistingReminder(rems, feeId, reminderType)
             /\ fees[feeId].studentId \in DOMAIN students
          THEN IF feeId \in bad
               THEN [reminders |-> rems, created |-> created, threw |-> TRUE]
               ELSE CreateLoop(Append(rems, NewReminder(feeId, reminderType, daysBefore)),
                               Tail(feeIds), reminderType, daysBefore, bad,
                               created + 1)
          ELSE CreateLoop(rems, Tail(feeIds), reminderType, daysBefore, bad, created)

\* feeReminderSchema.statics.createReminders(reminderType, daysBefore)
createReminders(reminderType, daysBefore, bad) ==
  CreateLoop(reminders, FindUnpaidFees(reminderType, daysBefore), reminderType,
             StoredDaysBefore(reminderType, daysBefore), bad, 0)

RECURSIVE RouteFeeLoop(_, _, _, _, _, _)
\* The inner loop of POST /create over one student's fees
RouteFeeLoop(rems, feeIds, reminderType, daysBefore, bad, created) ==
  IF feeIds = <<>>
  THEN [reminders |-> rems, created |-> created, threw |-> FALSE]
  ELSE LET feeId == Head(feeIds)
       IN IF ~FindExistingReminder(rems, feeId, reminderType)
          THEN IF feeId \in bad
               THEN [reminders |-> rems, created |-> created, threw |-> TRUE]
               ELSE RouteFeeLoop(Append(rems, NewReminder(feeId, reminderType, daysBefore)),
                                 Tail(feeIds), reminderType, daysBefore, bad,
                                 created + 1)
          ELSE RouteFeeLoop(rems, Tail(feeIds), reminderType, daysBefore, bad, created)

RECURSIVE RouteStudentLoop(_, _, _, _, _, _, _)
\* The outer loop of POST /create over studentIds
RouteStudentLoop(rems, studentList, feeTypes, reminderType, daysBefore, bad, created) ==
  IF studentList = <<>>
  THEN [reminders |-> rems, created |-> created, threw |-> FALSE]
  ELSE LET studentId == Head(studentList)
       IN IF studentId \notin DOMAIN students
          THEN RouteStudentLoop(rems, Tail(studentList), feeTypes, reminderType,
                                daysBefore, bad, created)
          ELSE LET r == RouteFeeLoop(rems, FindStudentFees(studentId, feeTypes),
                                     reminderType, daysBefore, bad, created)
               IN IF r.threw THEN r
                  ELSE RouteStudentLoop(r.reminders, Tail(studentList), feeTypes,
                                        reminderType, daysBefore, bad, r.created)

\* bound of the model: the collection holds at most MaxReminders documents
Fits(r) == Len(r.reminders) <= MaxReminders

\* POST /api/fee-reminders/create
CreateRoute(reminderType, daysBefore, studentList, feeTypes, bad) ==
  LET r == IF Len(studentList) > 0
           THEN RouteStudentLoop(reminders, studentList, feeTypes, reminderType,
                                 RouteDaysBefore(reminderType, daysBefore), bad, 0)
           ELSE createReminders(reminderType, daysBefore, bad)
  IN /\ Fits(r)
     /\ reminders' = r.reminders
     /\ resp' = [NoResp EXCEPT
                   !.op = "create", !.ok = ~r.threw,
                   !.error = IF r.threw THEN "Failed to create fee reminders" ELSE "",
                   !.req = [NoReq EXCEPT !.reminderType = reminderType,
                                         !.daysBefore = daysBefore,
                                         !.studentList = studentList,
                                         !.feeTypes = feeTypes, !.at = today],
                   !.created = IF r.threw THEN 0 ELSE r.created]
     /\ UNCHANGED <<today, students, grades, attendance, fees, promotions, procs,
                    doc, changes>>

\* POST /api/fee-reminders/schedule
ScheduleRoute(reminderType, daysBefore, bad) ==
  LET r == createReminders(reminderType, daysBefore, bad)
  IN /\ Fits(r)
     /\ reminders' = r.reminders
     /\ resp' = [NoResp EXCEPT
                   !.op = "schedule", !.ok = ~r.threw,
                   !.error = IF r.threw THEN "Failed to schedule fee reminders" ELSE "",
                   !.req = [NoReq EXCEPT !.reminderType = reminderType,
                                         !.daysBefore = daysBefore, !.at = today],
                   !.created = IF r.threw THEN 0 ELSE r.created]
     /\ UNCHANGED <<today, students, grades, attendance, fees, promotions, procs,
                    doc, changes>>

SendError == "Failed to send"
SendFaults == {"none", "sent", "both"}

\* reminder.markAsSent()
markAsSent(r) ==
  [r EXCEPT !.status = "sent", !.sentDate = today, !.attempts = @ + 1,
            !.lastAttempt = today]

\* reminder.markAsFailed(errorMessage)
markAsFailed(r, errorMessage) ==
  [r EXCEPT !.status = "failed", !.attempts = @ + 1, !.lastAttempt = today,
            !.errorMessage = errorMessage]

\* reminder.acknowledge()
acknowledge(r) ==
  [r EXCEPT !.status = "acknowledged", !.acknowledgedDate = today]

NoSendResults == [sent |-> 0, failed |-> 0, errors |-> <<>>]

RECURSIVE SendPendingLoop(_, _, _, _)
\* The loop of sendPendingReminders.  faults[i]: which save() rejects for
\* reminder i ("sent": markAsSent's; "both": markAsFailed's as well, which
\* rejects the whole call).  markAsFailed runs on the document markAsSent
\* already changed in memory.
SendPendingLoop(rems, ids, faults, results) ==
  IF ids = <<>>
  THEN [reminders |-> rems, results |-> results, threw |-> FALSE]
  ELSE LET i == Head(ids)
       IN CASE faults[i] = "none" ->
                 SendPendingLoop([rems EXCEPT ![i] = markAsSent(rems[i])], Tail(ids),
                                 faults, [results EXCEPT !.sent = @ + 1])
            [] faults[i] = "sent" ->
                 SendPendingLoop(
                   [rems EXCEPT ![i] = markAsFailed(markAsSent(rems[i]), SendError)],
                   Tail(ids), faults,
                   [results EXCEPT !.failed = @ + 1,
                                   !.errors = Append(@, [reminderId |-> i,
                                                         error |-> SendError])])
            [] faults[i] = "both" ->
                 [reminders |-> rems, results |-> results, threw |-> TRUE]

\* feeReminderSchema.statics.sendPendingReminders()
sendPendingReminders(faults) ==
  LET Pending(r) == r.status = "pending"
  IN SendPendingLoop(reminders, SelectIdx(reminders, Pending, 1), faults,
                     NoSendResults)

RECURSIVE SendIdsLoop(_, _, _, _)
\* The loop of POST /send over reminderIds; the catch block reads the
\* reminder again before markAsFailed.
SendIdsLoop(rems, ids, faults, results) ==
  IF ids = <<>>
  THEN [reminders |-> rems, results |-> results, threw |-> FALSE]
  ELSE LET i == Head(ids)
       IN IF i \in DOMAIN rems /\ rems[i].status = "pending"
          THEN CASE faults[i] = "none" ->
                      SendIdsLoop([rems EXCEPT ![i] = markAsSent(rems[i])], Tail(ids),
                                  faults, [results EXCEPT !.sent = @ + 1])
                 [] faults[i] = "sent" ->
                      SendIdsLoop(
                        [rems EXCEPT ![i] = markAsFailed(rems[i], SendError)],
                        Tail(ids), faults,
                        [results EXCEPT !.failed = @ + 1,
                                        !.errors = Append(@, [reminderId |-> i,
                                                              error |-> SendError])])
                 [] faults[i] = "both" ->
                      [reminders |-> rems, results |-> results, threw |-> TRUE]
          ELSE SendIdsLoop(rems, Tail(ids), faults, results)

\* POST /api/fee-reminders/send
SendRoute(reminderIds, faults) ==
  LET r == IF Len(reminderIds) > 0
           THEN SendIdsLoop(reminders, reminderIds, faults, NoSendResults)
           ELSE sendPendingReminders(faults)
  IN /\ reminders' = r.reminders
     /\ resp' = [NoResp EXCEPT
                   !.op = "send", !.ok = ~r.threw,
                   !.error = IF r.threw THEN "Failed to send fee reminders" ELSE "",
                   !.sent = IF r.threw THEN 0 ELSE r.results.sent,
                   !.failed = IF r.threw THEN 0 ELSE r.results.failed,
                   !.errors = IF r.threw THEN <<>> ELSE r.results.errors]
     /\ UNCHANGED <<today, students, grades, attendance, fees, promotions, procs,
                    doc, changes>>

\* the acknowledge route without the test of the caller's own reminders
MutAcknowledgeAnyCaller(id, role, student) ==
  LET AckResp(ok, error) ==
        [NoResp EXCEPT !.op = "acknowledge", !.ok = ok, !.error = error,
                       !.id = id, !.req.role = role, !.req.student = student]
  IN /\ IF id \notin DOMAIN reminders
        THEN /\ resp' = AckResp(FALSE, "Fee reminder not found")
             /\ UNCHANGED reminders
        ELSE /\ reminders' = [reminders EXCEPT ![id] = acknowledge(reminders[id])]
             /\ resp' = AckResp(TRUE, "")
     /\ UNCHANGED <<today, students, grades, attendance, fees, promotions, procs,
                    doc, changes>>

\* POST /api/fee-reminders/:id/acknowledge; student: the Student document of
\* the caller's account ("" when there is none)
Acknowledge(id, role, student) ==
  LET AckResp(ok, error) ==
        [NoResp EXCEPT !.op = "acknowledge", !.ok = ok, !.error = error,
                       !.id = id, !.req.role = role, !.req.student = student]
  IN /\ IF id \notin DOMAIN reminders
        THEN /\ resp' = AckResp(FALSE, "Fee reminder not found")
             /\ UNCHANGED reminders
        ELSE IF role = "student"
                /\ (student \notin DOMAIN students
                      \/ reminders[id].studentId # student)
             THEN /\ resp' = AckResp(FALSE, "Access denied")
                  /\ UNCHANGED reminders
             ELSE /\ reminders' = [reminders EXCEPT ![id] = acknowledge(reminders[id])]
                  /\ resp' = AckResp(TRUE, "")
     /\ UNCHANGED <<today, students, grades, attendance, fees, promotions, procs,
                    doc, changes>>

----------------------------------------------------------------------------
\* The fee reminder service, one request at a time

RemFees ==
  << [FeeDoc("s1", "pending", StartDay + FinalNoticeDays) EXCEPT !.type = "tuition"],
     [FeeDoc("s2", "partial", StartDay - FinalNoticeDays) EXCEPT
        !.type = "transport", !.paidAmount = 40],
     [FeeDoc("sx", "overdue", StartDay - FinalNoticeDays) EXCEPT !.type = "tuition"] >>

RemTypes == {"before_due", "after_due"}
DaysBeforeValues == {FinalNoticeDays}
CreateRequests ==
  {[studentIds |-> <<>>, feeTypes |-> {}],
   [studentIds |-> <<"sx", "s2", "s1", "s1">>, feeTypes |-> {"tuition"}]}
Callers == {<<"admin", "">>, <<"student", "s1">>, <<"student", "s2">>,
            <<"student", "">>}

InitRem ==
  /\ today = StartDay
  /\ students = InitStudents
  /\ grades = <<>>
  /\ attendance = <<>>
  /\ fees = RemFees
  /\ promotions = <<>>
  /\ reminders = <<>>
  /\ procs = <<>>
  /\ doc = NoDoc
  /\ resp = NoResp
  /\ changes = 0

CreateRouteAny ==
  \E reminderType \in RemTypes, daysBefore \in DaysBeforeValues,
     r \in CreateRequests :
    CreateRoute(reminderType, daysBefore, r.studentIds, r.feeTypes, {})

ScheduleRouteAny ==
  \E reminderType \in RemTypes, daysBefore \in DaysBeforeValues,
     bad \in {{}, {2}} :
    ScheduleRoute(reminderType, daysBefore, bad)

\* the requests of the send route: all pending, one id (also an unknown
\* one), or the last and the first id
SendIdLists ==
  {<<>>} \cup {<<i>> : i \in 1..(Len(reminders) + 1)}
         \cup {<<Len(reminders), 1>> : j \in {k \in {2} : k <= Len(reminders)}}

\* at most one pending reminder whose save rejects (0: none)
SendFaultChoices ==
  {<<0, "none">>}
    \cup {<<i, f>> : i \in {k \in DOMAIN reminders : reminders[k].status = "pending"},
                     f \in SendFaults \ {"none"}}

SendRouteAny ==
  \E reminderIds \in SendIdLists, bad \in SendFaultChoices :
    SendRoute(reminderIds,
              [i \in DOMAIN reminders |-> IF i = bad[1] THEN bad[2] ELSE "none"])

AcknowledgeAny ==
  \E id \in 1..(Len(reminders) + 1), c \in Callers : Acknowledge(id, c[1], c[2])

\* acknowledge requests of staff
AcknowledgeStaff ==
  \E id \in 1..(Len(reminders) + 1) : Acknowledge(id, "admin", "")

NextRem ==
  \/ CreateRouteAny
  \/ ScheduleRouteAny
  \/ SendRouteAny
  \/ AcknowledgeStaff

SpecRem == InitRem /\ [][NextRem]_vars

ActiveReminders(feeId, reminderType) ==
  {i \in DOMAIN reminders :
     /\ reminders[i].feeId = feeId
     /\ reminders[i].reminderType = reminderType
     /\ reminders[i].status \in {"pending", "sent"}}

AtMostOneActive ==
  \A feeId \in DOMAIN fees, reminderType \in ReminderTypes :
    Cardinality(ActiveReminders(feeId, reminderType)) <= 1

\* C3: with one request at a time, createReminders, POST /create with a
\* studentIds list, POST /schedule, POST /send and acknowledge never leave two
\* reminders with status pending or sent for the same (feeId, reminderType),
\* and a create request repeated at once with the same inputs on the same day
\* adds no reminder.
ReminderDedupSequential ==
  /\ [](AtMostOneActive)
  /\ [][(/\ resp.op \in {"create", "schedule"}
         /\ resp.ok
         /\ resp'.op = resp.op
         /\ resp'.req = resp.req)
        => reminders' = reminders]_vars

RepeatedCreateWitness ==
  /\ resp.op = "create"
  /\ resp.ok
  /\ resp.created = 0
  /\ resp.req.studentList = <<>>
  /\ \E i \in DOMAIN reminders :
       /\ reminders[i].reminderType = resp.req.reminderType
       /\ reminders[i].status = "sent"
       /\ InWindow(reminders[i].dueDate, resp.req.reminderType, resp.req.daysBefore)
  /\ \E j \in DOMAIN reminders : reminders[j].status = "acknowledged"

----------------------------------------------------------------------------
\* createReminders with requests in flight together.  Each await of the
\* handler is a step: Fee.find, then per fee FeeReminder.findOne and
\* reminder.save().

SetProc(p, next) == procs' = [procs EXCEPT ![p] = next]

\* The call, up to the end of Fee.find
BeginCreateReminders(reminderType, daysBefore) ==
  /\ Len(procs) < MaxProcs
  /\ procs' = Append(procs,
                [op |-> "createReminders", reminderType |-> reminderType,
                 daysBefore |-> StoredDaysBefore(reminderType, daysBefore),
                 feeIds |-> FindUnpaidFees(reminderType, daysBefore),
                 pc |-> "find", created |-> 0])
  /\ UNCHANGED <<today, students, grades, attendance, fees, promotions,
                 reminders, doc, resp, changes>>

\* await this.findOne({feeId, reminderType, status in [sent, pending]}) and
\* the test that follows
FindOneReminder(p) ==
  /\ procs[p].pc = "find"
  /\ procs[p].feeIds # <<>>
  /\ LET feeId == Head(procs[p].feeIds)
     IN IF ~FindExistingReminder(reminders, feeId, procs[p].reminderType)
           /\ fees[feeId].studentId \in DOMAIN students
        THEN SetProc(p, [procs[p] EXCEPT !.pc = "save"])
        ELSE SetProc(p, [procs[p] EXCEPT !.feeIds = Tail(@)])
  /\ UNCHANGED <<today, students, grades, attendance, fees, promotions,
                 reminders, doc, resp, changes>>

\* await reminder.save()
SaveReminder(p) ==
  /\ procs[p].pc = "save"
  /\ reminders' = Append(reminders,
                         NewReminder(Head(procs[p].feeIds), procs[p].reminderType,
                                     procs[p].daysBefore))
  /\ SetProc(p, [procs[p] EXCEPT !.pc = "find", !.feeIds = Tail(@),
                                 !.created = @ + 1])
  /\ UNCHANGED <<today, students, grades, attendance, fees, promotions, doc,
                 resp, changes>>

\* return reminders
ReturnCreateReminders(p) ==
  /\ procs[p].pc = "find"
  /\ procs[p].feeIds = <<>>
  /\ SetProc(p, [procs[p] EXCEPT !.pc = "done"])
  /\ resp' = [NoResp EXCEPT !.op = "create", !.id = p,
                            !.req = [NoReq EXCEPT
                                       !.reminderType = procs[p].reminderType,
                                       !.daysBefore = procs[p].daysBefore],
                            !.created = procs[p].created]
  /\ UNCHANGED <<today, students, grades, attendance, fees, promotions,
                 reminders, doc, changes>>

NextRemConc ==
  \/ \E reminderType \in RemTypes, daysBefore \in DaysBeforeValues :
       BeginCreateReminders(reminderType, daysBefore)
  \/ \E p \in DOMAIN procs : FindOneReminder(p)
  \/ \E p \in DOMAIN procs : SaveReminder(p)
  \/ \E p \in DOMAIN procs : ReturnCreateReminders(p)
  \/ \E faults \in [DOMAIN reminders -> {"none"}] : SendRoute(<<>>, faults)
  \/ \E id \in DOMAIN reminders : Acknowledge(id, "admin", "")

SpecRemConc == InitRem /\ [][NextRemConc]_vars

\* C4: also with createReminders calls in flight together, no (feeId,
\* reminderType) has two reminders with status pending or sent.
ReminderDedupConcurrent ==
  \A i, j \in DOMAIN reminders :
    (/\ reminders[i].feeId = reminders[j].feeId
     /\ reminders[i].reminderType = reminders[j].reminderType
     /\ reminders[i].status \in {"pending", "sent"}
     /\ reminders[j].status \in {"pending", "sent"}) => i = j

----------------------------------------------------------------------------
\* POST /evaluate with requests in flight together.  Per student the
\* handler awaits Promotion.findOne, the reads, and promotion.save().

\* The request, up to the end of Class.findById
BeginEvaluate(classId, academicYear, term) ==
  /\ Len(procs) < MaxProcs
  /\ classId \in ClassIds
  /\ procs' = Append(procs,
                [op |-> "evaluate", classId |-> classId,
                 academicYear |-> academicYear, term |-> term,
                 studentIds |-> Classes[classId].students,
                 pc |-> "find", found |-> 0, promotion |-> <<>>])
  /\ UNCHANGED <<today, students, grades, attendance, fees, promotions,
                 reminders, doc, resp, changes>>

\* await Promotion.findOne({studentId, academicYear, term}), and the new
\* document when there is none
FindOnePromotion(p) ==
  /\ procs[p].pc = "find"
  /\ procs[p].studentIds # <<>>
  /\ LET s == Head(procs[p].studentIds)
         id == FindPromotion(promotions, s, procs[p].academicYear, procs[p].term)
     IN SetProc(p, [procs[p] EXCEPT
                      !.pc = "save", !.found = id,
                      !.promotion = IF id = 0
                                    THEN NewPromotion(s, Classes[procs[p].classId],
                                                      procs[p].academicYear,
                                                      procs[p].term)
                                    ELSE promotions[id]])
  /\ UNCHANGED <<today, students, grades, attendance, fees, promotions,
                 reminders, doc, resp, changes>>

\* The reads of grades, attendance and fees, checkPromotionEligibility and
\* await promotion.save(): an insert for a new document
SavePromotion(p) ==
  /\ procs[p].pc = "save"
  /\ LET s == Head(procs[p].studentIds)
         saved == Recompute(procs[p].promotion, s, procs[p].academicYear,
                            procs[p].term)
     IN promotions' = IF procs[p].found = 0
                      THEN Append(promotions, saved)
                      ELSE [promotions EXCEPT ![procs[p].found] = saved]
  /\ SetProc(p, [procs[p] EXCEPT !.pc = "find", !.studentIds = Tail(@),
                                 !.found = 0, !.promotion = <<>>])
  /\ UNCHANGED <<today, students, grades, attendance, fees, reminders, doc,
                 resp, changes>>

\* res.json({success: true, ...})
ReturnEvaluate(p) ==
  /\ procs[p].pc = "find"
  /\ procs[p].studentIds = <<>>
  /\ SetProc(p, [procs[p] EXCEPT !.pc = "done"])
  /\ resp' = [NoResp EXCEPT !.op = "evaluate", !.id = p,
                            !.req = [NoReq EXCEPT
                                       !.classId = procs[p].classId,
                                       !.academicYear = procs[p].academicYear,
                                       !.term = procs[p].term],
                            !.selected = Classes[procs[p].classId].students]
  /\ UNCHANGED <<today, students, grades, attendance, fees, promotions,
                 reminders, doc, changes>>

NextEvalConc ==
  \/ \E classId \in ClassIds, academicYear \in AcademicYears, term \in Terms :
       BeginEvaluate(classId, academicYear, term)
  \/ \E p \in DOMAIN procs : FindOnePromotion(p)
  \/ \E p \in DOMAIN procs : SavePromotion(p)
  \/ \E p \in DOMAIN procs : ReturnEvaluate(p)

SpecEvalConc == Init /\ [][NextEvalConc]_vars

\* C6: also with evaluate requests in flight together, no (studentId,
\* academicYear, term) has two Promotion records.
OnePromotionPerKeyConcurrent ==
  \A k \in StudentIds \X AcademicYears \X Terms : Cardinality(WithKey(k)) <= 1

----------------------------------------------------------------------------
\* Batches of reminders where the store rejects some saves

\* two fees of two students, both due in FinalNoticeDays days
BatchFees ==
  << FeeDoc("s1", "pending", StartDay + FinalNoticeDays),
     FeeDoc("s2", "pending", StartDay + FinalNoticeDays) >>

\* the fees for which a save() of a reminder can reject
BatchBad == {1}

BatchRequests ==
  {[studentIds |-> <<>>, feeTypes |-> {}],
   [studentIds |-> <<"s1", "s2">>, feeTypes |-> {}]}

InitBatch ==
  /\ today = StartDay
  /\ students = InitStudents
  /\ grades = <<>>
  /\ attendance = <<>>
  /\ fees = BatchFees
  /\ promotions = <<>>
  /\ reminders = <<>>
  /\ procs = <<>>
  /\ doc = NoDoc
  /\ resp = NoResp
  /\ changes = 0

CreateBatchAny ==
  \E r \in BatchRequests, bad \in {{}, BatchBad} :
    CreateRoute("before_due", FinalNoticeDays, r.studentIds, r.feeTypes, bad)

SendBatchAny ==
  \E reminderIds \in SendIdLists, fault \in SendFaults :
    SendRoute(reminderIds,
              [i \in DOMAIN reminders |->
                 IF reminders[i].feeId \in BatchBad THEN fault ELSE "none"])

NextBatch ==
  \/ CreateBatchAny
  \/ SendBatchAny
  \/ \E id \in DOMAIN reminders : Acknowledge(id, "admin", "")

SpecBatch == InitBatch /\ [][NextBatch]_vars

\* the fees a create request is about
InCreateScope(feeId, req) ==
  /\ fees[feeId].status \in UnpaidStatuses
  /\ fees[feeId].studentId \in DOMAIN students
  /\ IF req.studentList = <<>>
     THEN InWindow(fees[feeId].dueDate, req.reminderType, req.daysBefore)
     ELSE \E k \in DOMAIN req.studentList : req.studentList[k] = fees[feeId].studentId

\* C11: a save that rejects for one fee or one reminder does not fail a
\* create or send request as a whole, and every other fee of a create batch
\* still gets its reminder.
BatchFailureIsolated ==
  /\ resp.op \in {"create", "send"} => resp.ok
  /\ resp.op = "create" =>
       \A feeId \in DOMAIN fees \ BatchBad :
         InCreateScope(feeId, resp.req) =>
           ActiveReminders(feeId, resp.req.reminderType) # {}

----------------------------------------------------------------------------
\* Fee status

\* new Date() > dueDate: due dates are at midnight and the clock reads later
\* in the day
DuePassed(dueDate) == today >= dueDate

\* feeSchema.pre('save'): the status it stores
feePreSave(fee) ==
  LET totalAmount == fee.amount + fee.lateFee - fee.discount
  IN [fee EXCEPT !.status =
        IF fee.paidAmount = 0
        THEN (IF DuePassed(fee.dueDate) THEN "overdue" ELSE "pending")
        ELSE IF fee.paidAmount >= totalAmount THEN "paid" ELSE "partial"]

\* The pre-save hook on its own, on fees of every shape

FeeShapes ==
  {[FeeDoc("s1", "pending", due) EXCEPT
      !.amount = amount, !.lateFee = lateFee, !.discount = discount,
      !.paidAmount = paidAmount] :
     amount \in {0, 100}, lateFee \in {0, 10}, discount \in {0, 10, 100},
     paidAmount \in {0, 50, 100, 110},
     due \in {StartDay - 1, StartDay, StartDay + 1}}

InitFeeStatus ==
  /\ today = StartDay
  /\ students = InitStudents
  /\ grades = <<>>
  /\ attendance = <<>>
  /\ fees = <<>>
  /\ promotions = <<>>
  /\ reminders = <<>>
  /\ procs = <<>>
  /\ doc \in {[fee |-> f, saves |-> 0] : f \in FeeShapes}
  /\ resp = NoResp
  /\ changes = 0

\* fee.save()
SaveFeeDoc ==
  /\ doc.saves < MaxSaves
  /\ doc' = [fee |-> feePreSave(doc.fee), saves |-> doc.saves + 1]
  /\ UNCHANGED <<today, students, grades, attendance, fees, promotions,
                 reminders, procs, resp, changes>>

NextFeeStatus == SaveFeeDoc

SpecFeeStatus == InitFeeStatus /\ [][NextFeeStatus]_vars

TotalDue(fee) == fee.amount + fee.lateFee - fee.discount

DerivedStatus(fee) ==
  IF fee.paidAmount >= TotalDue(fee) THEN "paid"
  ELSE IF fee.paidAmount > 0 THEN "partial"
  ELSE IF DuePassed(fee.dueDate) THEN "overdue"
  ELSE "pending"

\* C12: the status stored when a Fee is saved is 'paid' whenever paidAmount
\* >= totalDue (also when totalDue = 0), 'partial' when 0 < paidAmount <
\* totalDue, 'overdue' when paidAmount = 0 and the due date has passed, and
\* 'pending' otherwise.
FeeStatusDerivation ==
  doc.saves >= 1 => doc.fee.status = DerivedStatus(doc.fee)

----------------------------------------------------------------------------
\* Fee routes

FeeStatuses == {"pending", "partial", "paid", "overdue"}

\* The schema validators that save() and runValidators apply
FeeValid(fee) ==
  /\ fee.amount >= 0
  /\ fee.paidAmount >= 0
  /\ fee.discount >= 0
  /\ fee.lateFee >= 0
  /\ fee.status \in FeeStatuses

\* new Fee({...}) with the schema defaults
NewFee(studentId, amount, dueDate, discount) ==
  [FeeDoc(studentId, "pending", dueDate) EXCEPT !.amount = amount,
                                                !.discount = discount]

\* $set of the fields of an update document
ApplyUpdate(fee, update) ==
  [f \in DOMAIN fee |-> IF f \in DOMAIN update THEN update[f] ELSE fee[f]]

FeeResp(op, ok, error, id) ==
  [NoResp EXCEPT !.op = op, !.ok = ok, !.error = error, !.id = id]

FeeUnchanged ==
  UNCHANGED <<today, students, grades, attendance, promotions, reminders,
              procs, doc, changes>>

\* POST /api/fees
CreateFee(studentId, amount, dueDate, discount) ==
  /\ IF studentId \notin DOMAIN students
     THEN /\ resp' = FeeResp("fee-create", FALSE, "Student not found", 0)
          /\ UNCHANGED fees
     ELSE LET fee == feePreSave(NewFee(studentId, amount, dueDate, discount))
          IN IF FeeValid(fee)
             THEN /\ Len(fees) < MaxFees
                  /\ fees' = Append(fees, fee)
                  /\ resp' = FeeResp("fee-create", TRUE, "", Len(fees) + 1)
             ELSE /\ resp' = FeeResp("fee-create", FALSE, "Failed to create fee", 0)
                  /\ UNCHANGED fees
  /\ FeeUnchanged

\* PUT /api/fees/:id: Fee.findByIdAndUpdate(id, req.body, {runValidators})
UpdateFee(id, body) ==
  /\ IF id \notin DOMAIN fees
     THEN /\ resp' = FeeResp("fee-update", FALSE, "Fee not found", id)
          /\ UNCHANGED fees
     ELSE IF FeeValid(ApplyUpdate(fees[id], body))
          THEN /\ fees' = [fees EXCEPT ![id] = ApplyUpdate(fees[id], body)]
               /\ resp' = FeeResp("fee-update", TRUE, "", id)
          ELSE /\ resp' = FeeResp("fee-update", FALSE, "Failed to update fee", id)
               /\ UNCHANGED fees
  /\ FeeUnchanged

\* An amount of a request body: a JSON number (Num), or a string that is
\* not a number but begins with the digits of one (Text, "500abc")
Num(n) == [numeric |-> TRUE, value |-> n]
Text(n) == [numeric |-> FALSE, value |-> n]

\* amount > x: the amount is converted to a number, a string that is not
\* one becomes NaN and compares false
JsGreater(amount, x) == amount.numeric /\ amount.value > x

\* parseFloat(amount): the number the text begins with
parseFloat(amount) == amount.value

\* The document of the payment route just before save(): the payment is
\* pushed to paymentHistory and added to paidAmount, and the save hook
\* derives the status
PaymentDoc(fee, amount) ==
  feePreSave([fee EXCEPT !.paidAmount = @ + parseFloat(amount),
                         !.paymentHistory = Append(@, parseFloat(amount))])

\* the test of the payment route on the document it read
ExceedsRemaining(fee, amount) ==
  LET totalAmount == fee.amount + fee.lateFee - fee.discount
      remainingAmount == totalAmount - fee.paidAmount
  IN JsGreater(amount, remainingAmount)

\* POST /api/fees/:id/payment
PayFee(id, amount) ==
  /\ IF id \notin DOMAIN fees
     THEN /\ resp' = FeeResp("payment", FALSE, "Fee not found", id)
          /\ UNCHANGED fees
     ELSE LET fee == fees[id]
              paid == PaymentDoc(fee, amount)
          IN IF ExceedsRemaining(fee, amount)
             THEN /\ resp' = FeeResp("payment", FALSE,
                                     "Payment amount exceeds remaining balance", id)
                  /\ UNCHANGED fees
             ELSE IF FeeValid(paid)
                  THEN /\ fees' = [fees EXCEPT ![id] = paid]
                       /\ resp' = FeeResp("payment", TRUE, "", id)
                  ELSE /\ resp' = FeeResp("payment", FALSE,
                                          "Failed to process payment", id)
                       /\ UNCHANGED fees
  /\ FeeUnchanged

\* POST /api/finance/transactions; paid: a paymentMethod is given
CreateTransaction(studentId, amount, paid, dueDate, discount) ==
  /\ IF studentId \notin DOMAIN students
     THEN /\ resp' = FeeResp("transaction-create", FALSE, "Student not found", 0)
          /\ UNCHANGED fees
     ELSE LET fee == feePreSave(
                       [NewFee(studentId, amount, dueDate, discount) EXCEPT
                          !.paidAmount = IF paid THEN amount ELSE 0,
                          !.status = IF paid THEN "paid" ELSE "pending",
                          !.paymentHistory = IF paid THEN <<amount>> ELSE <<>>])
          IN IF FeeValid(fee)
             THEN /\ Len(fees) < MaxFees
                  /\ fees' = Append(fees, fee)
                  /\ resp' = FeeResp("transaction-create", TRUE, "", Len(fees) + 1)
             ELSE /\ resp' = FeeResp("transaction-create", FALSE,
                                     "Failed to create transaction", 0)
                  /\ UNCHANGED fees
  /\ FeeUnchanged

\* PUT /api/finance/transactions/:transactionId; update: the updateData built
\* from the status and paidAmount of the body
UpdateTransaction(id, update) ==
  /\ IF id \notin DOMAIN fees
     THEN /\ resp' = FeeResp("transaction-update", FALSE, "Transaction not found", id)
          /\ UNCHANGED fees
     ELSE /\ fees' = [fees EXCEPT ![id] = ApplyUpdate(fees[id], update)]
          /\ resp' = FeeResp("transaction-update", TRUE, "", id)
  /\ FeeUnchanged

\* The fee service, one request at a time

InitFees ==
  /\ today = StartDay
  /\ students = InitStudents
  /\ grades = <<>>
  /\ attendance = <<>>
  /\ fees = <<>>
  /\ promotions = <<>>
  /\ reminders = <<>>
  /\ procs = <<>>
  /\ doc = NoDoc
  /\ resp = NoResp
  /\ changes = 0

DueDates == {StartDay - 1, StartDay + 1}

FeeBodies ==
  {[paidAmount |-> 100], [paidAmount |-> -1], [dueDate |-> StartDay - 1],
   [discount |-> 50], [status |-> "paid"]}

TransactionUpdates ==
  {[status |-> "paid"], [paidAmount |-> 50],
   [status |-> "pending", paidAmount |-> 0]}

CreateFeeAny ==
  \E studentId \in {"s1", "sx"}, dueDate \in DueDates, discount \in {0, 50} :
    CreateFee(studentId, 100, dueDate, discount)

UpdateFeeAny ==
  \E id \in 1..(Len(fees) + 1), body \in FeeBodies : UpdateFee(id, body)

\* the amounts of payment requests
PaymentAmounts == {Num(-50), Num(50), Num(100)}

\* bound of the model: a Fee holds at most MaxPayments payments
HistoryFits(id) ==
  id \in DOMAIN fees => Len(fees[id].paymentHistory) < MaxPayments

PayFeeAny ==
  \E id \in 1..(Len(fees) + 1), amount \in PaymentAmounts :
    HistoryFits(id) /\ PayFee(id, amount)

CreateTransactionAny ==
  \E studentId \in {"s1", "sx"}, paid \in BOOLEAN, discount \in {0, 50} :
    CreateTransaction(studentId, 100, paid, StartDay + 1, discount)

UpdateTransactionAny ==
  \E id \in 1..(Len(fees) + 1), update \in TransactionUpdates :
    UpdateTransaction(id, update)

NextFees ==
  \/ CreateFeeAny
  \/ UpdateFeeAny
  \/ PayFeeAny
  \/ CreateTransactionAny
  \/ UpdateTransactionAny

SpecFees == InitFees /\ [][NextFees]_vars

\* C13: after every fee create, fee update, payment and finance transaction
\* create or update, each stored Fee has the status that the save hook
\* derives from its amount, discount, lateFee, paidAmount and dueDate.
StoredStatusIsDerived ==
  \A i \in DOMAIN fees : fees[i].status = feePreSave(fees[i]).status

\* C14: no payment (POST /api/fees/:id/payment with any amount, or a finance
\* transaction update that records a payment) lowers the stored paidAmount.
PaidAmountNeverDecreases ==
  [][resp'.op \in {"payment", "transaction-update"} =>
       \A i \in DOMAIN fees :
         i \in DOMAIN fees' /\ fees'[i].paidAmount >= fees[i].paidAmount]_vars

----------------------------------------------------------------------------
\* Grade banding

\* The pre-save hook on its own: scores 0..MaxPoints out of 100, and every
\* score up to the maximum for smaller maxima
GradeShapes ==
  {[GradeDoc("s1", "final", 0, "Third Term") EXCEPT
      !.score = score, !.maxScore = maxScore, !.gradeLevel = ""] :
     score \in 0..MaxPoints, maxScore \in {100}}
  \cup
  {[GradeDoc("s1", "final", 0, "Third Term") EXCEPT
      !.score = score, !.maxScore = maxScore, !.gradeLevel = ""] :
     score \in 0..40, maxScore \in {1, 3, 20, 40}}

InitBand ==
  /\ today = StartDay
  /\ students = InitStudents
  /\ grades = <<>>
  /\ attendance = <<>>
  /\ fees = <<>>
  /\ promotions = <<>>
  /\ reminders = <<>>
  /\ procs = <<>>
  /\ doc \in {[grade |-> g, saves |-> 0] : g \in GradeShapes}
  /\ resp = NoResp
  /\ changes = 0

\* grade.save()
SaveGradeDoc ==
  /\ doc.saves < MaxSaves
  /\ doc' = [grade |-> gradePreSave(doc.grade), saves |-> doc.saves + 1]
  /\ UNCHANGED <<today, students, grades, attendance, fees, promotions,
                 reminders, procs, resp, changes>>

NextBand == SaveGradeDoc

SpecBand == InitBand /\ [][NextBand]_vars

BandNames == <<"A+", "A", "A-", "B+", "B", "B-", "C+", "C", "C-", "D+", "D", "F">>
BandThresholds == <<97, 93, 90, 87, 83, 80, 77, 73, 70, 67, 65>>

\* the position of a band in BandNames, 1 for the highest
BandRank(level) == CHOOSE i \in DOMAIN BandNames : BandNames[i] = level

\* the band of the threshold table: the first threshold the percentage meets
TableBand(score, maxScore) ==
  LET met == {i \in DOMAIN BandThresholds :
                100 * score >= BandThresholds[i] * maxScore}
  IN IF met = {} THEN "F"
     ELSE BandNames[CHOOSE i \in met : \A j \in met : i <= j]

\* C15: the band stored at Grade save is one of the twelve bands, is the one
\* the thresholds 97/93/90/87/83/80/77/73/70/67/65 give for 100*score/maxScore
\* (97/100 is A+, 65/100 is D, 64/100 is F), and a higher percentage never
\* gets a lower band.
GradeBandingTotal ==
  doc.saves >= 1 =>
    LET g == doc.grade
    IN /\ \E i \in DOMAIN BandNames : BandNames[i] = g.gradeLevel
       /\ g.gradeLevel = TableBand(g.score, g.maxScore)
       /\ (g.maxScore = 100 /\ g.score = 97) => g.gradeLevel = "A+"
       /\ (g.maxScore = 100 /\ g.score = 65) => g.gradeLevel = "D"
       /\ (g.maxScore = 100 /\ g.score = 64) => g.gradeLevel = "F"
       /\ \A h \in GradeShapes :
            h.score * g.maxScore >= g.score * h.maxScore
              => BandRank(gradeLevel(h.score, h.maxScore)) <= BandRank(g.gradeLevel)

LowestPassWitness ==
  /\ doc.saves >= 1
  /\ doc.grade.maxScore = 20
  /\ doc.grade.score = 13
  /\ doc.grade.gradeLevel = "D"

----------------------------------------------------------------------------
\* Grade routes

GradeUnchanged ==
  UNCHANGED <<today, students, attendance, fees, promotions, reminders, procs,
              doc, changes>>

GradeResp(op, ok, error, id) ==
  [NoResp EXCEPT !.op = op, !.ok = ok, !.error = error, !.id = id]

\* POST /api/grades: the required-field tests, Student.findById, new Grade
\* and grade.save() (validators, then the pre-save hook)
CreateGrade(studentId, score, maxScore) ==
  /\ Len(grades) < MaxGrades
  /\ IF maxScore = 0
     THEN /\ resp' = GradeResp("grade-create", FALSE, "Max score is required", 0)
          /\ UNCHANGED grades
     ELSE IF studentId \notin DOMAIN students
          THEN /\ resp' = GradeResp("grade-create", FALSE, "Student not found", 0)
               /\ UNCHANGED grades
          ELSE IF score < 0 \/ maxScore < 1
               THEN /\ resp' = GradeResp("grade-create", FALSE,
                                         "Failed to create grade", 0)
                    /\ UNCHANGED grades
               ELSE /\ grades' =
                         Append(grades,
                                gradePreSave(
                                  [GradeDoc(studentId, "final", 0, "First Term")
                                     EXCEPT !.score = score,
                                            !.maxScore = maxScore]))
                    /\ resp' = GradeResp("grade-create", TRUE, "", Len(grades) + 1)
  /\ GradeUnchanged

\* Grade.findByIdAndUpdate(id, body): the fields of the body overwrite the
\* stored ones
ApplyGradeUpdate(grade, body) ==
  [f \in DOMAIN grade |-> IF f \in DOMAIN body THEN body[f] ELSE grade[f]]

\* PUT /api/grades/:id: Grade.findByIdAndUpdate(id, req.body,
\* {new: true, runValidators: true}); update validators run, save hooks do not
UpdateGrade(id, body) ==
  /\ IF ("score" \in DOMAIN body /\ body.score < 0)
        \/ ("maxScore" \in DOMAIN body /\ body.maxScore < 1)
     THEN /\ resp' = GradeResp("grade-update", FALSE, "Failed to update grade", id)
          /\ UNCHANGED grades
     ELSE IF id \notin DOMAIN grades
          THEN /\ resp' = GradeResp("grade-update", FALSE, "Grade not found", id)
               /\ UNCHANGED grades
          ELSE /\ grades' = [grades EXCEPT ![id] = ApplyGradeUpdate(grades[id], body)]
               /\ resp' = GradeResp("grade-update", TRUE, "", id)
  /\ GradeUnchanged

InitGradeRoutes ==
  /\ today = StartDay
  /\ students = InitStudents
  /\ grades = <<>>
  /\ attendance = <<>>
  /\ fees = <<>>
  /\ promotions = <<>>
  /\ reminders = <<>>
  /\ procs = <<>>
  /\ doc = NoDoc
  /\ resp = NoResp
  /\ changes = 0

GradeBodies ==
  {[score |-> 64], [score |-> 97], [score |-> -1], [maxScore |-> 50],
   [maxScore |-> 0], [score |-> 30, maxScore |-> 40]}

CreateGradeAny ==
  \E studentId \in {"s1", "sx"}, score \in {-1, 64, 65, 97}, maxScore \in {0, 100} :
    CreateGrade(studentId, score, maxScore)

UpdateGradeAny ==
  \E id \in 1..MaxGrades, body \in GradeBodies : UpdateGrade(id, body)

NextGrades ==
  \/ CreateGradeAny
  \/ UpdateGradeAny

SpecGrades == InitGradeRoutes /\ [][NextGrades]_vars

\* gradeDistribution of GET /api/grades/analytics/class/:classId: the number
\* of records stored under each gradeLevel
gradeDistribution(level) ==
  Cardinality({i \in DOMAIN grades : grades[i].gradeLevel = level})

\* C16: after any sequence of grade creates and grade updates, every stored
\* Grade's gradeLevel is the band of its current score and maxScore, so the
\* class distribution counts each record under the band of its current score.
GradeLevelFollowsScore ==
  /\ \A i \in DOMAIN grades :
       grades[i].gradeLevel = gradeLevel(grades[i].score, grades[i].maxScore)
  /\ \A i \in DOMAIN BandNames :
       gradeDistribution(BandNames[i]) =
         Cardinality({j \in DOMAIN grades :
                        gradeLevel(grades[j].score, grades[j].maxScore) = BandNames[i]})

----------------------------------------------------------------------------
\* The life cycle of one reminder

\* C17: a send request leaves every reminder that is not 'pending' as it
\* is, and a 'pending' reminder it attempts ends 'sent', or 'failed' with
\* errorMessage set, with attempts one higher than before.
SendCountsOneAttempt ==
  [][resp'.op = "send" =>
       \A i \in DOMAIN reminders :
         IF reminders[i].status = "pending"
         THEN \/ reminders'[i] = reminders[i]
              \/ /\ reminders'[i].attempts = reminders[i].attempts + 1
                 /\ \/ reminders'[i].status = "sent"
                    \/ /\ reminders'[i].status = "failed"
                       /\ reminders'[i].errorMessage # ""
         ELSE reminders'[i] = reminders[i]]_vars

\* POST /send for all pending reminders, and for one id, with every save
\* accepted
SendAllDelivered ==
  SendRoute(<<>>, [i \in DOMAIN reminders |-> "none"])

SendOneDelivered(id) ==
  SendRoute(<<id>>, [i \in DOMAIN reminders |-> "none"])

\* the batch service where send requests with working delivery keep coming
SpecRetry ==
  /\ InitBatch
  /\ [][NextBatch]_vars
  /\ WF_vars(SendAllDelivered)
  /\ \A id \in 1..MaxReminders : WF_vars(SendOneDelivered(id))

\* C18: a reminder that became 'failed' is attempted again by the sends that
\* follow, so with delivery working it does not stay 'failed'.
FailedIsRetried ==
  \A id \in 1..MaxReminders :
    (id \in DOMAIN reminders /\ reminders[id].status = "failed")
      ~> (id \in DOMAIN reminders /\ reminders[id].status # "failed")

\* C19: an acknowledge request moves a reminder to 'acknowledged' only from
\* 'sent'; a 'pending' or 'failed' reminder is never moved to 'acknowledged'.
AcknowledgeOnlyFromSent ==
  [][resp'.op = "acknowledge" =>
       \A i \in DOMAIN reminders :
         (reminders'[i].status = "acknowledged"
            /\ reminders[i].status # "acknowledged")
           => reminders[i].status = "sent"]_vars

----------------------------------------------------------------------------
\* Who may acknowledge a reminder

NextAck ==
  \/ CreateRoute("before_due", FinalNoticeDays, <<>>, {}, {})
  \/ SendAllDelivered
  \/ AcknowledgeAny

SpecAck == InitBatch /\ [][NextAck]_vars

\* the caller of request req is a student whose Student profile is missing
\* or is not the student of the reminder
NotOwnReminder(req, reminder) ==
  /\ req.role = "student"
  /\ \/ req.student \notin DOMAIN students
     \/ reminder.studentId # req.student

\* C20: an acknowledge request of a student for a reminder of another
\* student, or of a student account without Student profile, is answered
\* 'Access denied' and leaves every reminder's status and acknowledgedDate
\* as they were.
AcknowledgeOwnOnly ==
  [][(resp'.op = "acknowledge" /\ resp'.id \in DOMAIN reminders
        /\ NotOwnReminder(resp'.req, reminders[resp'.id]))
       => /\ ~resp'.ok
          /\ resp'.error = "Access denied"
          /\ \A i \in DOMAIN reminders :
               /\ reminders'[i].status = reminders[i].status
               /\ reminders'[i].acknowledgedDate = reminders[i].acknowledgedDate]_vars

\* a student without profile was denied a sent reminder, and a student was
\* denied another student's
AcknowledgeDeniedWitness ==
  /\ resp.op = "acknowledge"
  /\ resp.error = "Access denied"
  /\ resp.id \in DOMAIN reminders
  /\ reminders[resp.id].status = "sent"
  /\ resp.req.student = "s2"
  /\ reminders[resp.id].studentId = "s1"

----------------------------------------------------------------------------
\* Promotion history of a student

\* GET /api/promotions/student/:studentId by a caller with the given role
\* whose Student document is student ("" when there is none):
\* Promotion.find({studentId}); selected: the records returned
GetStudentPromotions(studentId, role, student) ==
  LET Match(p) == p.studentId = studentId
  IN /\ resp' = [NoResp EXCEPT
                   !.op = "history",
                   !.req = [NoReq EXCEPT !.studentId = studentId, !.role = role,
                                         !.student = student],
                   !.selected = SelectIdx(promotions, Match, 1)]
     /\ UNCHANGED <<today, students, grades, attendance, fees, promotions,
                    reminders, procs, doc, changes>>

GetStudentPromotionsAny ==
  \E studentId \in StudentIds \cup {"sx"}, c \in Callers :
    GetStudentPromotions(studentId, c[1], c[2])

NextHistory ==
  \/ EvaluateAny
  \/ GetStudentPromotionsAny

SpecHistory == Init /\ [][NextHistory]_vars

\* C21: a promotion history request of a caller with role 'student' returns
\* Promotion records only when the requested studentId is the caller's own
\* student.
HistoryOwnOnly ==
  (resp.op = "history" /\ resp.req.role = "student"
     /\ resp.req.studentId # resp.req.student)
    => resp.selected = <<>>

----------------------------------------------------------------------------
\* The window of a create request

\* C22: every reminder a create (or schedule) request of type T adds is for
\* a Fee with status pending, partial or overdue whose dueDate is in T's
\* window on the day of the request, with or without a studentIds list.
CreatedInWindow ==
  [][resp'.op \in {"create", "schedule"} =>
       \A i \in DOMAIN reminders' \ DOMAIN reminders :
         /\ fees[reminders'[i].feeId].status \in UnpaidStatuses
         /\ InWindow(fees[reminders'[i].feeId].dueDate, resp'.req.reminderType,
                     resp'.req.daysBefore)]_vars

----------------------------------------------------------------------------
\* Aggregations over Grade, Attendance and Fee records

\* n / d of two numbers in JavaScript, for n >= 0 and d >= 0, rounded down
\* to a whole number of the unit of n; 0 / 0 is NaN
JsDiv(n, d) == IF d = 0 THEN NaN ELSE n \div d

\* x || 0
OrZero(x) == IF x = NaN THEN 0 ELSE x

RECURSIVE SumOver(_, _)
\* the sum of f[x] over the elements x of the set S
SumOver(f, S) ==
  IF S = {} THEN 0
  ELSE LET x == CHOOSE y \in S : TRUE IN f[x] + SumOver(f, S \ {x})

RECURSIVE MapField(_, _)
MapField(s, field) ==
  IF s = <<>> THEN <<>> ELSE <<Head(s)[field]>> \o MapField(Tail(s), field)

SubjectsOf(gs) == {gs[i].subjectName : i \in DOMAIN gs}

GradesOfSubject(gs, subject) ==
  LET Match(g) == g.subjectName = subject IN SelectSeq(gs, Match)

\* GET /api/grades/analytics/student/:studentId: per subject total / count of
\* the percentages, overallAverage the mean of the subject averages
\* (hundredths of a percent); term and academicYear "" when not given
StudentGradeAnalytics(studentId, term, academicYear) ==
  LET Match(g) == /\ g.studentId = studentId
                  /\ (term # "" => g.term = term)
                  /\ (academicYear # "" => g.academicYear = academicYear)
      gs == SelectSeq(grades, Match)
      subjects == [s \in SubjectsOf(gs) |->
                     JsDiv(SumSeq(MapPct(GradesOfSubject(gs, s))),
                           Len(GradesOfSubject(gs, s)))]
      overallAverage == JsDiv(SumOver(subjects, DOMAIN subjects),
                              Cardinality(DOMAIN subjects))
  IN [overallAverage |-> OrZero(overallAverage), subjects |-> subjects,
      totalGrades |-> Len(gs)]

\* GET /api/grades/analytics/class/:classId (subject and term "" when not
\* given)
ClassGradeAnalytics(classId, subject, term) ==
  LET Match(g) == /\ g.classId = classId
                  /\ (subject # "" => g.subjectName = subject)
                  /\ (term # "" => g.term = term)
      gs == SelectSeq(grades, Match)
      averageScore == JsDiv(SumSeq(MapPct(gs)), Len(gs))
  IN [averageScore |-> OrZero(averageScore), totalGrades |-> Len(gs),
      gradeDistribution |->
        [l \in {gs[i].gradeLevel : i \in DOMAIN gs} |->
           Cardinality({i \in DOMAIN gs : gs[i].gradeLevel = l})]]

\* the first day of each month in a year of DaysPerYear days
MonthStarts == <<0, 31, 59, 90, 120, 151, 181, 212, 243, 273, 304, 334>>

\* date.getMonth() + 1
MonthOf(d) ==
  LET dayOfYear == d % DaysPerYear
      begun == {m \in DOMAIN MonthStarts : MonthStarts[m] <= dayOfYear}
  IN CHOOSE m \in begun : \A n \in begun : n <= m

Ranges == {"last7days", "last30days", "lastyear"}

\* getDateRange(range).startDate, as the day it falls on
RangeStart(range) ==
  CASE range = "last7days" -> today - 7
    [] range = "last30days" -> today - 30
    [] range = "lastyear" -> today - DaysPerYear

\* date >= startDate and date <= endDate for a date at midnight, both ends
\* of the range being at the time of day of the request
InRange(date, range) == date > RangeStart(range) /\ date <= today

\* generateAnalytics(range): the attendance series, averageAttendance and
\* the performance list (rates and averages in hundredths of a percent)
generateAnalytics(range) ==
  LET InR(r) == InRange(r.date, range)
      records == SelectSeq(attendance, InR)
      days == {records[i].date : i \in DOMAIN records}
      OfDay(d) == {i \in DOMAIN records : records[i].date = d}
      \* $group by day, $project rate
      attendanceRecords ==
        [d \in days |->
           JsDiv(Cardinality({i \in OfDay(d) : records[i].status = "present"}) * 10000,
                 Cardinality(OfDay(d)))]
      avgAttendance ==
        IF Cardinality(days) > 0
        THEN RoundDiv(SumOver(attendanceRecords, days), Cardinality(days))
        ELSE 0
      \* monthKey = months[date.getMonth()]
      monthKeys == {MonthOf(d) : d \in days}
      DaysOfMonth(m) == {d \in days : MonthOf(d) = m}
      attendanceData ==
        IF range \in {"last7days", "last30days"}
        THEN [d \in days |-> attendanceRecords[d]]
        ELSE [m \in monthKeys |->
                RoundDiv(SumOver(attendanceRecords, DaysOfMonth(m)),
                         Cardinality(DaysOfMonth(m)))]
      gs == SelectSeq(grades, InR)
      performanceData ==
        [s \in SubjectsOf(gs) |->
           JsDiv(SumSeq(MapField(GradesOfSubject(gs, s), "score")) * 10000,
                 SumSeq(MapField(GradesOfSubject(gs, s), "maxScore")))]
  IN [averageAttendance |-> avgAttendance, attendance |-> attendanceData,
      performance |-> performanceData]

\* GET /api/fees/analytics/overview (collectionRate in hundredths of a percent)
FeeOverview(academicYear) ==
  LET Match(f) == academicYear # "" => f.academicYear = academicYear
      fs == SelectSeq(fees, Match)
      totalAmount == SumSeq(MapField(fs, "amount"))
      totalPaid == SumSeq(MapField(fs, "paidAmount"))
  IN [totalFees |-> Len(fs), totalAmount |-> totalAmount, totalPaid |-> totalPaid,
      totalPending |-> totalAmount - totalPaid,
      collectionRate |-> IF totalAmount > 0
                         THEN JsDiv(totalPaid * 10000, totalAmount) ELSE 0]

ReadUnchanged ==
  UNCHANGED <<today, students, grades, attendance, fees, promotions, reminders,
              procs, doc, changes>>

\* the answer of a read route, with its query
ReadResp(op, req, data) ==
  [NoResp EXCEPT !.op = op, !.req = req, !.data = data]

GetStudentGradeAnalytics(studentId, term) ==
  /\ resp' = ReadResp("student-analytics",
                      [NoReq EXCEPT !.studentId = studentId, !.term = term],
                      StudentGradeAnalytics(studentId, term, ""))
  /\ ReadUnchanged

GetClassGradeAnalytics(classId, term) ==
  /\ resp' = ReadResp("class-analytics",
                      [NoReq EXCEPT !.classId = classId, !.term = term],
                      ClassGradeAnalytics(classId, "", term))
  /\ ReadUnchanged

GetAnalytics(range) ==
  /\ resp' = ReadResp("analytics", [NoReq EXCEPT !.reminderType = range, !.at = today],
                      generateAnalytics(range))
  /\ ReadUnchanged

GetFeeOverview(academicYear) ==
  /\ resp' = ReadResp("fee-overview", [NoReq EXCEPT !.academicYear = academicYear],
                      FeeOverview(academicYear))
  /\ ReadUnchanged

\* DELETE /api/grades/:id
DeleteGrade(id) ==
  /\ IF id \notin DOMAIN grades
     THEN /\ resp' = GradeResp("grade-delete", FALSE, "Grade not found", id)
          /\ UNCHANGED grades
     ELSE /\ grades' = SubSeq(grades, 1, id - 1) \o SubSeq(grades, id + 1, Len(grades))
          /\ resp' = GradeResp("grade-delete", TRUE, "", id)
  /\ GradeUnchanged

\* The aggregation routes over collections that records are taken out of
InitAgg ==
  /\ today = StartDay
  /\ students = InitStudents
  /\ grades \in {<<>>, InitGrades([s \in StudentIds |-> IF s = "s1" THEN 1 ELSE 0])}
  /\ attendance \in {<<>>, InitAttendance([s \in StudentIds |-> 1])}
  /\ fees \in {<<>>, <<FeeDoc("s1", "pending", StartDay)>>}
  /\ promotions = <<>>
  /\ reminders = <<>>
  /\ procs = <<>>
  /\ doc = NoDoc
  /\ resp = NoResp
  /\ changes = 0

DeleteGradeAny ==
  \E id \in 1..(Len(grades) + 1) : DeleteGrade(id)

GetStudentGradeAnalyticsAny ==
  \E studentId \in StudentIds, term \in {"", "Second Term"} :
    GetStudentGradeAnalytics(studentId, term)

GetClassGradeAnalyticsAny ==
  \E classId \in ClassIds, term \in {""} : GetClassGradeAnalytics(classId, term)

GetAnalyticsAny ==
  \E range \in Ranges : GetAnalytics(range)

GetFeeOverviewAny ==
  \E academicYear \in {"", "2023-24"} : GetFeeOverview(academicYear)

NextAgg ==
  \/ DeleteGradeAny
  \/ EvaluateAny
  \/ GetStudentGradeAnalyticsAny
  \/ GetClassGradeAnalyticsAny
  \/ GetAnalyticsAny
  \/ GetFeeOverviewAny

SpecAgg == InitAgg /\ [][NextAgg]_vars

\* C23: when no record matches, the rate and average fields are 0:
\* overallAverage of the student grade analytics, averageScore of the class
\* grade analytics, averageAttendance of the analytics facade,
\* attendancePercentage and overallAverage of the Promotion records of an
\* evaluate, collectionRate and the totals of the fee overview; and the
\* request is not answered with an error.
ZeroCaseIsZero ==
  /\ (resp.op = "student-analytics" /\ resp.data.totalGrades = 0)
       => resp.ok /\ resp.data.overallAverage = 0
  /\ (resp.op = "class-analytics" /\ resp.data.totalGrades = 0)
       => resp.ok /\ resp.data.averageScore = 0
  /\ (resp.op = "analytics"
        /\ ~\E i \in DOMAIN attendance :
              InRange(attendance[i].date, resp.req.reminderType))
       => resp.ok /\ resp.data.averageAttendance = 0
  /\ (resp.op = "fee-overview" /\ resp.data.totalFees = 0)
       => /\ resp.ok
          /\ resp.data.collectionRate = 0
          /\ resp.data.totalAmount = 0
          /\ resp.data.totalPaid = 0
          /\ resp.data.totalPending = 0
  /\ (resp.op = "evaluate" /\ resp.ok) =>
       \A i \in DOMAIN promotions :
         LET p == promotions[i]
         IN (p.academicYear = resp.req.academicYear /\ p.term = resp.req.term) =>
              /\ CountAttendance(p.studentId, {"present", "absent", "late"}) = 0
                   => p.attendancePercentage = 0
              /\ (FindGrades(p.studentId, "midterm", p.academicYear, p.term)
                    \o FindGrades(p.studentId, "final", p.academicYear, p.term)) = <<>>
                   => p.overallAverage = 0

----------------------------------------------------------------------------
\* The attendance series of the analytics facade

\* attendance taken on the second day of the year, and some days before the
\* start day
SeriesRecords ==
  {<<>>,
   <<AttendanceDoc("s1", "present", 1)>>,
   <<AttendanceDoc("s1", "present", 1), AttendanceDoc("s2", "absent", StartDay - 3)>>,
   <<AttendanceDoc("s1", "present", StartDay - FinalNoticeDays),
     AttendanceDoc("s1", "late", StartDay - 3)>>}

InitSeries ==
  /\ today = StartDay
  /\ students = InitStudents
  /\ grades = <<>>
  /\ attendance \in SeriesRecords
  /\ fees = <<>>
  /\ promotions = <<>>
  /\ reminders = <<>>
  /\ procs = <<>>
  /\ doc = NoDoc
  /\ resp = NoResp
  /\ changes = 0

NextSeries ==
  \/ Tick
  \/ \E s \in StudentIds, status \in {"present", "absent"} : MarkAttendance(s, status)
  \/ GetAnalyticsAny

SpecSeries == InitSeries /\ [][NextSeries]_vars

\* the calendar buckets (days, or year and month) of the Attendance records
\* in the range of the last analytics request
SeriesBuckets ==
  LET range == resp.req.reminderType
      at == resp.req.at
      start == CASE range = "last7days" -> at - 7
                 [] range = "last30days" -> at - 30
                 [] OTHER -> at - DaysPerYear
      dates == {attendance[i].date : i \in DOMAIN attendance}
      inRange == {d \in dates : d > start /\ d <= at}
  IN IF range \in {"last7days", "last30days"}
     THEN {<<d>> : d \in inRange}
     ELSE {<<YearOf(d), MonthOf(d)>> : d \in inRange}

\* C24: the attendance series has exactly one point for each calendar bucket
\* (day for last7days and last30days, year and month for longer ranges) with
\* at least one Attendance record in the range, and none for other buckets;
\* two calendar months never share a point.
SeriesOnePointPerBucket ==
  resp.op = "analytics" =>
    /\ Cardinality(DOMAIN resp.data.attendance) = Cardinality(SeriesBuckets)
    /\ \A b \in SeriesBuckets : b[Len(b)] \in DOMAIN resp.data.attendance
    /\ \A k \in DOMAIN resp.data.attendance :
         Cardinality({b \in SeriesBuckets : b[Len(b)] = k}) = 1

----------------------------------------------------------------------------
\* Per-subject averages

NextPooled ==
  \/ CreateGradeAny
  \/ UpdateGradeAny
  \/ GetStudentGradeAnalyticsAny
  \/ GetAnalyticsAny

SpecPooled == InitGradeRoutes /\ [][NextPooled]_vars

\* 100 * (sum of score) / (sum of maxScore) over the grades gs, in
\* hundredths of a percent
PooledAverage(gs) ==
  (SumSeq(MapField(gs, "score")) * 10000) \div SumSeq(MapField(gs, "maxScore"))

\* C25: the average the grade aggregations report for a subject is
\* 100 * (sum of score) / (sum of maxScore) over the matched Grade records
\* of the subject, in the performance list of the analytics facade and in
\* the subjects list of the student grade analytics.
SubjectAverageIsPooled ==
  /\ resp.op = "analytics" =>
       LET InR(g) == InRange(g.date, resp.req.reminderType)
       IN \A s \in DOMAIN resp.data.performance :
            resp.data.performance[s]
              = PooledAverage(GradesOfSubject(SelectSeq(grades, InR), s))
  /\ resp.op = "student-analytics" =>
       LET Match(g) == /\ g.studentId = resp.req.studentId
                       /\ (resp.req.term # "" => g.term = resp.req.term)
       IN \A s \in DOMAIN resp.data.subjects :
            resp.data.subjects[s]
              = PooledAverage(GradesOfSubject(SelectSeq(grades, Match), s))

----------------------------------------------------------------------------
\* The two writes of promote

\* C26: in every step of promote or bulk promote, a Student's class is set
\* to the nextClass of a Promotion record if and only if that record is
\* persisted as 'promoted' with a promotionDate in the same step; a promote
\* that fails leaves the Student record as it was.
PromoteWritesTogether ==
  [][resp'.op \in {"promote", "bulk-promote", "bulk"} =>
       \A s \in DOMAIN students :
         /\ students'[s] # students[s]
              <=> \E i \in DOMAIN promotions :
                    /\ promotions[i].studentId = s
                    /\ promotions[i].promotionStatus # "promoted"
                    /\ promotions'[i].promotionStatus = "promoted"
                    /\ promotions'[i].promotionDate = today
                    /\ students'[s].class = promotions[i].nextClass
         /\ (resp'.op = "promote" /\ ~resp'.ok) => students'[s] = students[s]]_vars

----------------------------------------------------------------------------
\* The snapshots evaluate takes

\* what the Grade records matching (student, examType, academicYear, term)
\* give for one exam
ExamSnapshot(s, examType, academicYear, term) ==
  IF FindGrades(s, examType, academicYear, term) = <<>>
  THEN NoExam
  ELSE ExamResult(FindGrades(s, examType, academicYear, term))

\* C27: after evaluate, examResults.midterm, examResults.final and
\* overallAverage of each Promotion record of the request are what the
\* matching Grade records give at that time, whatever the record held
\* before; an exam without matching grade is recorded as not completed.
SnapshotFollowsGrades ==
  (resp.op = "evaluate" /\ resp.ok) =>
    \A i \in DOMAIN promotions :
      LET p == promotions[i]
          allGrades == FindGrades(p.studentId, "midterm", p.academicYear, p.term)
                         \o FindGrades(p.studentId, "final", p.academicYear, p.term)
      IN (p.academicYear = resp.req.academicYear /\ p.term = resp.req.term) =>
           /\ p.examResults.midterm
                = ExamSnapshot(p.studentId, "midterm", p.academicYear, p.term)
           /\ p.examResults.final
                = ExamSnapshot(p.studentId, "final", p.academicYear, p.term)
           /\ p.overallAverage
                = IF allGrades = <<>> THEN 0 ELSE AverageScore(allGrades)

----------------------------------------------------------------------------
\* The fee status evaluate records

NextFeeGate ==
  \/ CreateFeeAny
  \/ PayFeeAny
  \/ EvaluateAny

SpecFeeGate == InitFees /\ [][NextFeeGate]_vars

\* the Fee records of student s in academicYear with an outstanding balance
OutstandingFees(s, academicYear) ==
  {i \in DOMAIN fees : /\ fees[i].studentId = s
                       /\ fees[i].academicYear = academicYear
                       /\ fees[i].status \in UnpaidStatuses}

\* C28: after evaluate, a Promotion record's feeStatus is 'paid' when the
\* student has no Fee record of the academicYear with status pending,
\* partial or overdue, and 'pending' otherwise.
FeeStatusCountsOutstanding ==
  (resp.op = "evaluate" /\ resp.ok) =>
    \A i \in DOMAIN promotions :
      LET p == promotions[i]
      IN (p.academicYear = resp.req.academicYear /\ p.term = resp.req.term) =>
           p.feeStatus = IF OutstandingFees(p.studentId, p.academicYear) = {}
                         THEN "paid" ELSE "pending"

----------------------------------------------------------------------------
\* POST /api/fees/:id/payment with requests in flight together.  The handler
\* awaits Fee.findById, works on the document it read, and awaits fee.save().

\* The request up to the test of the remaining balance, on the document read
BeginPayment(id, amount) ==
  /\ Len(procs) < MaxProcs
  /\ IF id \notin DOMAIN fees
     THEN /\ resp' = FeeResp("payment", FALSE, "Fee not found", id)
          /\ UNCHANGED procs
     ELSE IF ExceedsRemaining(fees[id], amount)
          THEN /\ resp' = FeeResp("payment", FALSE,
                                  "Payment amount exceeds remaining balance", id)
               /\ UNCHANGED procs
          ELSE /\ procs' = Append(procs, [op |-> "payment", id |-> id,
                                          amount |-> amount, fee |-> fees[id],
                                          pc |-> "save"])
               /\ UNCHANGED resp
  /\ UNCHANGED <<today, students, grades, attendance, fees, promotions,
                 reminders, doc, changes>>

\* await fee.save(): the paths the handler changed on its document are set
\* on the stored document, the payment is pushed to the stored paymentHistory
SavePayment(p) ==
  /\ procs[p].pc = "save"
  /\ LET id == procs[p].id
         read == procs[p].fee
         paid == PaymentDoc(read, procs[p].amount)
     IN IF FeeValid(paid)
        THEN /\ fees' = [fees EXCEPT
                           ![id].paidAmount =
                              IF paid.paidAmount # read.paidAmount
                              THEN paid.paidAmount ELSE @,
                           ![id].status =
                              IF paid.status # read.status THEN paid.status ELSE @,
                           ![id].paymentHistory =
                              Append(@, parseFloat(procs[p].amount))]
             /\ resp' = FeeResp("payment", TRUE, "", id)
        ELSE /\ resp' = FeeResp("payment", FALSE, "Failed to process payment", id)
             /\ UNCHANGED fees
  /\ SetProc(p, [procs[p] EXCEPT !.pc = "done"])
  /\ UNCHANGED <<today, students, grades, attendance, promotions, reminders,
                 doc, changes>>

\* a Fee of 100 with 10 discount, not yet due, nothing or 50 paid
InitPayments ==
  /\ today = StartDay
  /\ students = InitStudents
  /\ grades = <<>>
  /\ attendance = <<>>
  /\ fees \in {<<feePreSave(NewFee("s1", 100, StartDay + 1, 10))>>,
               <<PaymentDoc(NewFee("s1", 100, StartDay + 1, 10), Num(50))>>}
  /\ promotions = <<>>
  /\ reminders = <<>>
  /\ procs = <<>>
  /\ doc = NoDoc
  /\ resp = NoResp
  /\ changes = 0

ConcurrentAmounts == {Num(40), Num(90), Num(100), Text(500)}

BeginPaymentAny ==
  \E id \in 1..(Len(fees) + 1), amount \in ConcurrentAmounts :
    BeginPayment(id, amount)

NextPayments ==
  \/ BeginPaymentAny
  \/ \E p \in DOMAIN procs : SavePayment(p)

SpecPayments == InitPayments /\ [][NextPayments]_vars

\* C29: payments, also two in flight together on one Fee, never take
\* paidAmount above amount + lateFee - discount, and a payment rejected as
\* exceeding the remaining balance leaves the Fee as it was.
NoOverpayment ==
  /\ [](\A i \in DOMAIN fees :
          fees[i].paidAmount <= fees[i].amount + fees[i].lateFee - fees[i].discount)
  /\ [][resp'.error = "Payment amount exceeds remaining balance"
          => fees' = fees]_vars

----------------------------------------------------------------------------
\* Fee creation, payments and the finance transactions, one request at a time

NextLedger ==
  \/ CreateFeeAny
  \/ PayFeeAny
  \/ CreateTransactionAny
  \/ UpdateTransactionAny

SpecLedger == InitFees /\ [][NextLedger]_vars

\* s is the beginning of t
IsPrefix(s, t) == Len(s) <= Len(t) /\ SubSeq(t, 1, Len(s)) = s

\* C30: after fee creation, payments and finance transaction creates and
\* updates, no stored paymentHistory entry is removed or altered, and the
\* paidAmount of every Fee is the sum of its stored paymentHistory amounts.
LedgerMatchesHistory ==
  /\ [](\A i \in DOMAIN fees : fees[i].paidAmount = SumSeq(fees[i].paymentHistory))
  /\ [][\A i \in DOMAIN fees :
          i \in DOMAIN fees'
          /\ IsPrefix(fees[i].paymentHistory, fees'[i].paymentHistory)]_vars

====
